---------------------------- MODULE Spec2Model ----------------------------
(***************************************************************************)
(* Model of the 3D modelling agent of project08-ai.                        *)
(*                                                                         *)
(* Two revisions of the agent live in the repository:                      *)
(*   "store_ai"    src/store_ai.py    (generate / compile / self-correct)  *)
(*   "unified_app" src/unified_app.py (templates, one-shot generation and  *)
(*                                     the Meshy mesh generator)           *)
(* The variable rev says which revision a behaviour runs.                  *)
(*                                                                         *)
(* Text (requests, model replies) is a sequence of one-character strings,  *)
(* so that lower(), upper(), strip() and the substring test `in` are       *)
(* computed the way Python computes them.                                  *)
(***************************************************************************)
EXTENDS Integers, Sequences, FiniteSets

(***************************************************************************)
(* Bounds of the model.                                                    *)
(***************************************************************************)
\* the number of words of a request
MaxWords == 2
\* the number of words of a classifier reply
MaxReplyWords == 2
\* the number of fragments of a source text handed to the extractor
MaxStatements == 2

(***************************************************************************)
(* Program constants.                                                      *)
(***************************************************************************)
\* Config.MAX_CORRECTION_ATTEMPTS
MAX_CORRECTION_ATTEMPTS == 5
\* for i in range(40)
POLL_ITERATIONS == 40
\* PromptEnhancer.enhance: len(prompt.strip()) >= 15
ENHANCE_MIN_LEN == 15

(***************************************************************************)
(* Text.                                                                   *)
(***************************************************************************)
LowerLetters ==
    << "a","b","c","d","e","f","g","h","i","j","k","l","m",
       "n","o","p","q","r","s","t","u","v","w","x","y","z" >>
UpperLetters ==
    << "A","B","C","D","E","F","G","H","I","J","K","L","M",
       "N","O","P","Q","R","S","T","U","V","W","X","Y","Z" >>

\* str.lower() and str.upper() on one character
LowerChar(c) ==
    IF \E i \in 1..26 : UpperLetters[i] = c
    THEN LowerLetters[CHOOSE i \in 1..26 : UpperLetters[i] = c]
    ELSE c
UpperChar(c) ==
    IF \E i \in 1..26 : LowerLetters[i] = c
    THEN UpperLetters[CHOOSE i \in 1..26 : LowerLetters[i] = c]
    ELSE c

\* a request matched as typed, without .lower()
Lower_AsTyped(s) == s

Lower(s) == [i \in 1..Len(s) |-> LowerChar(s[i])]
Upper(s) == [i \in 1..Len(s) |-> UpperChar(s[i])]

IsSpace(c) == c \in {" ", "\n", "\t"}

\* str.strip(): leading and trailing whitespace removed
Strip(s) ==
    IF \A i \in 1..Len(s) : IsSpace(s[i])
    THEN << >>
    ELSE LET first == CHOOSE i \in 1..Len(s) :
                         /\ ~IsSpace(s[i])
                         /\ \A j \in 1..(i-1) : IsSpace(s[j])
             last  == CHOOSE i \in 1..Len(s) :
                         /\ ~IsSpace(s[i])
                         /\ \A j \in (i+1)..Len(s) : IsSpace(s[j])
         IN  SubSeq(s, first, last)

\* Python's `sub in s` on strings
Contains(s, sub) ==
    \E i \in 0..(Len(s) - Len(sub)) : SubSeq(s, i + 1, i + Len(sub)) = sub

\* " ".join(ws)
RECURSIVE Join(_)
Join(ws) ==
    IF Len(ws) = 0 THEN << >>
    ELSE IF Len(ws) = 1 THEN ws[1]
    ELSE ws[1] \o << " " >> \o Join(Tail(ws))

\* the texts of 1..n words over a vocabulary
Phrases(words, n) ==
    { Join(ws) : ws \in UNION { [1..k -> words] : k \in 1..n } }

(***************************************************************************)
(* Keywords the code searches for.                                         *)
(***************************************************************************)
KW_FUNCTIONAL == << "F","U","N","C","T","I","O","N","A","L" >>
KW_ORGANIC    == << "O","R","G","A","N","I","C" >>
kw_funnel     == << "f","u","n","n","e","l" >>
kw_bracket    == << "b","r","a","c","k","e","t" >>
kw_l_bracket  == << "l","-","b","r","a","c","k","e","t" >>
kw_mounting   == << "m","o","u","n","t","i","n","g" >>
kw_box        == << "b","o","x" >>
kw_container  == << "c","o","n","t","a","i","n","e","r" >>
kw_case       == << "c","a","s","e" >>
kw_lid        == << "l","i","d" >>
kw_cover      == << "c","o","v","e","r" >>

(***************************************************************************)
(* The inputs of the model: requests of up to MaxWords words and           *)
(* classifier replies of up to MaxReplyWords words.                        *)
(***************************************************************************)
RequestWords ==
    { << "F","u","n","n","e","l" >>, kw_bracket, kw_l_bracket, kw_mounting, kw_box,
      kw_container, << "b","r","i","e","f","c","a","s","e" >>, kw_lid, kw_cover, << "b","e","a","r" >> }
Requests == Phrases(RequestWords, MaxWords)

ReplyWords == { KW_FUNCTIONAL, << "O","r","g","a","n","i","c" >>, << "f","u","n","c","t","i","o","n","a","l","." >>, << "u","n","s","u","r","e" >> }
Replies == { << >> } \cup Phrases(ReplyWords, MaxReplyWords)

(***************************************************************************)
(* RequestType and RequestClassifier.classify                              *)
(***************************************************************************)
FUNCTIONAL == "functional"
ORGANIC    == "organic"
UNKNOWN    == "unknown"
RequestType == { FUNCTIONAL, ORGANIC, UNKNOWN }

\* a classifier that forgets .upper()
ClassifyReply_NoUpper(text) ==
    LET classification == Strip(text)
    IN  IF Contains(classification, KW_FUNCTIONAL) THEN FUNCTIONAL
        ELSE IF Contains(classification, KW_ORGANIC) THEN ORGANIC
        ELSE UNKNOWN

\* the reply's text is stripped and upper-cased, then searched for the two
\* keywords, FUNCTIONAL first
ClassifyReply(text) ==
    LET classification == Upper(Strip(text))
    IN  IF Contains(classification, KW_FUNCTIONAL) THEN FUNCTIONAL
        ELSE IF Contains(classification, KW_ORGANIC) THEN ORGANIC
        ELSE UNKNOWN

\* an except branch that guesses ORGANIC
ClassifyOnError_Organic == ORGANIC

\* the except branch of classify: the failure is swallowed
ClassifyOnError == UNKNOWN

(***************************************************************************)
(* FallbackPatterns and ModelAgent._check_fallbacks                        *)
(***************************************************************************)
NoTemplate == "none"
Templates  == { "funnel", "bracket", "box", "box_lid" }

\* store_ai.py: `A and B or C` is (A and B) or C
StoreTemplate(user_input) ==
    LET user_lower == Lower(user_input)
    IN  IF Contains(user_lower, kw_funnel) THEN "funnel"
        ELSE IF \/ /\ Contains(user_lower, kw_bracket)
                   /\ Contains(user_lower, kw_l_bracket)
                \/ Contains(user_lower, kw_mounting) THEN "bracket"
        ELSE IF \E word \in { kw_box, kw_container, kw_case } :
                    Contains(user_lower, word)
             THEN IF Contains(user_lower, kw_lid) \/ Contains(user_lower, kw_cover)
                  THEN "box_lid" ELSE "box"
        ELSE NoTemplate

\* unified_app.py
UnifiedTemplate(user_input) ==
    LET lower == Lower(user_input)
    IN  IF Contains(lower, kw_funnel) THEN "funnel"
        ELSE IF Contains(lower, kw_bracket) THEN "bracket"
        ELSE IF \E w \in { kw_box, kw_container } : Contains(lower, w)
             THEN IF Contains(lower, kw_lid) THEN "box_lid" ELSE "box"
        ELSE NoTemplate

\* the source a template renders with its default parameters, by name
TemplateCode(t) ==
    CASE t = "funnel"  -> "FallbackPatterns.funnel()"
      [] t = "bracket" -> "FallbackPatterns.bracket()"
      [] t = "box"     -> "FallbackPatterns.box(lid=False)"
      [] t = "box_lid" -> "FallbackPatterns.box(lid=True)"

StoreTemplateMessage(t) ==
    CASE t = "funnel"  -> "Generated using reliable funnel template"
      [] t = "bracket" -> "Generated using reliable bracket template"
      [] t \in { "box", "box_lid" } -> "Generated using reliable box template"

UnifiedTemplateMessage(t) ==
    CASE t = "funnel"  -> "Funnel template"
      [] t = "bracket" -> "Bracket template"
      [] t \in { "box", "box_lid" } -> "Box template"

\* the record _check_fallbacks returns for a matched template
StoreFallbackResult(t) ==
    [ success |-> TRUE, request_type |-> "functional",
      scad_code |-> TemplateCode(t), message |-> StoreTemplateMessage(t),
      fallback_used |-> TRUE ]

UnifiedFallbackResult(t) ==
    [ success |-> TRUE, scad_code |-> TemplateCode(t),
      message |-> UnifiedTemplateMessage(t), fallback_used |-> TRUE ]

(***************************************************************************)
(* Exceptions.  Each outbound call may raise; TrySites names the try       *)
(* blocks of the code whose except clause returns a value: classify,       *)
(* PromptEnhancer.enhance, generate, _self_correct, compile and            *)
(* _generate_with_meshy.  An exception no block catches would leave        *)
(* process_request.                                                        *)
(***************************************************************************)
\* _generate_with_meshy without its try block
TrySites_NoMeshy ==
    { "classify", "enhance", "generate", "self_correct", "compile" }

\* compile without its except clauses
TrySites_NoCompile ==
    { "classify", "enhance", "generate", "self_correct", "meshy" }

TrySites ==
    { "classify", "enhance", "generate", "self_correct", "compile", "meshy" }

(***************************************************************************)
(* OpenSCADCompiler.compile: what one call can end in, and the pair        *)
(* (success, error_msg) it returns.                                        *)
(***************************************************************************)
CompileOutcomes ==
    { "exit0", "nonzero", "timeout", "not_found", "write_failed", "os_error" }

CompileSuccess(outcome) == outcome = "exit0"

\* error_msg = result.stderr if result.stderr else result.stdout: what
\* openscad writes about a source it rejects
Stderr(code) ==
    IF code = "candidate_a"
    THEN << "E","R","R","O","R",":"," ","P","a","r","s","e","r"," ","e","r",
            "r","o","r",":"," ","s","y","n","t","a","x"," ","e","r","r","o",
            "r" >>
    ELSE << "W","A","R","N","I","N","G",":"," ","I","g","n","o","r","i","n",
            "g"," ","u","n","k","n","o","w","n"," ","v","a","r","i","a","b",
            "l","e"," ","'","w","'" >>

\* the text compile(code) returns beside its success flag
CompileMessage(outcome, code) ==
    CASE outcome = "exit0" ->
           << "C","o","m","p","i","l","a","t","i","o","n"," ","s","u","c",
              "c","e","s","s","f","u","l" >>
      [] outcome = "nonzero" -> Stderr(code)
      [] outcome = "timeout" ->
           << "C","o","m","p","i","l","a","t","i","o","n"," ","t","i","m",
              "e","o","u","t"," ","-"," ","m","o","d","e","l"," ","m","a",
              "y"," ","b","e"," ","t","o","o"," ","c","o","m","p","l","e",
              "x" >>
      [] outcome = "not_found" ->
           << "O","p","e","n","S","C","A","D"," ","n","o","t"," ","f","o",
              "u","n","d"," ","a","t"," ","'","o","p","e","n","s","c","a",
              "d","'","."," ","P","l","e","a","s","e"," ","i","n","s","t",
              "a","l","l"," ","O","p","e","n","S","C","A","D","." >>
      [] outcome = "write_failed" ->
           << "F","a","i","l","e","d"," ","t","o"," ","w","r","i","t","e",
              " ","t","e","m","p","o","r","a","r","y"," ","f","i","l","e" >>
      [] outcome = "os_error" ->
           << "C","o","m","p","i","l","a","t","i","o","n"," ","e","r","r",
              "o","r" >>

\* the file /tmp/temp_model.scad after compile(code) ending in outcome
TempFileAfter(old, code, outcome) ==
    IF outcome = "write_failed" THEN old ELSE code

NoRun == [ src |-> "", outcome |-> "none" ]
\* the last call compile(code): the source it was given and how it ended
CompileCall(code, outcome) == [ src |-> code, outcome |-> outcome ]

(***************************************************************************)
(* ErrorCategory and categorize_error (store_ai.py).  The excerpt that     *)
(* categorize_error returns beside the category is only printed.           *)
(***************************************************************************)
SYNTAX             == "syntax"
UNDEFINED_VARIABLE == "undefined"
INVALID_OPERATION  == "invalid_op"
GEOMETRY_ERROR     == "geometry"
COMPILATION_FAILED == "compilation"
UNKNOWN_ERROR      == "unknown"

\* ["syntax error", "parse error", "expected ';'"]
SyntaxKeywords ==
    { << "s","y","n","t","a","x"," ","e","r","r","o","r" >>,
      << "p","a","r","s","e"," ","e","r","r","o","r" >>,
      << "e","x","p","e","c","t","e","d"," ","'",";","'" >> }
\* "not defined" in error_lower or "unknown variable" in error_lower
UndefinedKeywords ==
    { << "n","o","t"," ","d","e","f","i","n","e","d" >>,
      << "u","n","k","n","o","w","n"," ","v","a","r","i","a","b","l","e" >> }
\* "division by zero" in error_lower or "invalid value" in error_lower
InvalidOperationKeywords ==
    { << "d","i","v","i","s","i","o","n"," ","b","y"," ","z","e","r","o" >>,
      << "i","n","v","a","l","i","d"," ","v","a","l","u","e" >> }
\* ["geometry", "manifold", "invalid shape"]
GeometryKeywords ==
    { << "g","e","o","m","e","t","r","y" >>,
      << "m","a","n","i","f","o","l","d" >>,
      << "i","n","v","a","l","i","d"," ","s","h","a","p","e" >> }
\* "compilation failed" in error_lower
CompilationKeywords ==
    { << "c","o","m","p","i","l","a","t","i","o","n"," ","f","a","i","l",
         "e","d" >> }

\* any(keyword in error_lower for keyword in keywords)
AnyIn(keywords, error_lower) ==
    \E keyword \in keywords : Contains(error_lower, keyword)

categorize_error(error_message) ==
    LET error_lower == Lower(error_message)
    IN  IF AnyIn(SyntaxKeywords, error_lower) THEN SYNTAX
        ELSE IF AnyIn(UndefinedKeywords, error_lower) THEN UNDEFINED_VARIABLE
        ELSE IF AnyIn(InvalidOperationKeywords, error_lower)
        THEN INVALID_OPERATION
        ELSE IF AnyIn(GeometryKeywords, error_lower) THEN GEOMETRY_ERROR
        ELSE IF AnyIn(CompilationKeywords, error_lower)
        THEN COMPILATION_FAILED
        ELSE UNKNOWN_ERROR

(***************************************************************************)
(* The candidate sources the language model may answer with (the text      *)
(* left by _extract_code).                                                 *)
(***************************************************************************)
LLMCodes == { "candidate_a", "candidate_b" }
EmptyCode == ""

(***************************************************************************)
(* ModelGenerator.generate / _self_correct (store_ai.py): the triples      *)
(* (success, scad_code, message) they return.                              *)
(***************************************************************************)
Triple(ok, code, msg) == [ success |-> ok, scad_code |-> code, message |-> msg ]

\* attempt > Config.MAX_CORRECTION_ATTEMPTS
AttemptsExhausted(a) == a > MAX_CORRECTION_ATTEMPTS

FailedAfterMessage == "Failed after 5 attempts"
FixedAfterMessage(a) ==
    << "Fixed after 1 attempt(s)", "Fixed after 2 attempt(s)",
       "Fixed after 3 attempt(s)", "Fixed after 4 attempt(s)",
       "Fixed after 5 attempt(s)" >>[a]

CapReached       == Triple(FALSE, EmptyCode, FailedAfterMessage)
GeneratedOk(c)   == Triple(TRUE, c, "Model generated successfully")
\* a failed model call reported as the attempt cap
GenerationError_AsCap == Triple(FALSE, EmptyCode, FailedAfterMessage)

\* except Exception as e: return False, "", f"Generation error: {e}"
GenerationError  == Triple(FALSE, EmptyCode, "Generation error: e")
CorrectedOk(c, a) == Triple(TRUE, c, FixedAfterMessage(a))
CorrectionError  == Triple(FALSE, EmptyCode, "Correction error: e")

\* a recursion that passes the attempt number on unchanged
NextAttempt_Same(a) == a

\* the attempt number _self_correct passes to generate
NextAttempt(a) == a + 1

(***************************************************************************)
(* ModelGenerator.generate (unified_app.py): no compiler is run.           *)
(***************************************************************************)
UnifiedGeneratedOk(c) == Triple(TRUE, c, "Code generated successfully")
UnifiedGenerationError == Triple(FALSE, EmptyCode, "Error: e")

(***************************************************************************)
(* The records process_request returns.                                    *)
(***************************************************************************)
StoreOrganicResult ==
    [ success |-> FALSE, request_type |-> "organic", scad_code |-> EmptyCode,
      message |-> "OpenSCAD is not suitable for organic modeling",
      fallback_used |-> FALSE ]

StoreGenerateResult(t, rt) ==
    [ success |-> t.success, request_type |-> rt, scad_code |-> t.scad_code,
      message |-> t.message, fallback_used |-> FALSE ]

UnifiedGenerateResult(t) ==
    [ success |-> t.success, scad_code |-> t.scad_code, message |-> t.message,
      fallback_used |-> FALSE, is_mesh |-> FALSE ]

\* a process_request that hands the mesh record on unmarked
MarkMesh_Unmarked(r) == r

\* mesh_result['request_type'] = 'organic'; mesh_result['is_mesh'] = True
MarkMesh(r) ==
    [ k \in DOMAIN r \cup { "request_type", "is_mesh" } |->
        IF k = "request_type" THEN "organic"
        ELSE IF k = "is_mesh" THEN TRUE
        ELSE r[k] ]

(***************************************************************************)
(* OrganicMeshGenerator (unified_app.py)                                   *)
(***************************************************************************)
NoBytes == "None"
\* a failure record that keeps the bytes of a download
MeshFailure_WithBytes(msg) ==
    [ success |-> FALSE, message |-> msg, stl_data |-> "glb bytes 1" ]

\* return {"success": False, "message": ..., "stl_data": None}
MeshFailure(msg) == [ success |-> FALSE, message |-> msg, stl_data |-> NoBytes ]
MeshSuccess(bytes) ==
    [ success |-> TRUE, message |-> "Generated successfully", stl_data |-> bytes,
      provider |-> "Meshy.ai", file_format |-> "glb" ]

NoKeyResult    == MeshFailure("Add MESHY_API_KEY to secrets for organic models")
NoTaskId       == MeshFailure("No task ID")
NoModelFile    == MeshFailure("No model file")
\* a loop whose exhaustion is reported as a transport error
MeshTimeout_AsError == MeshFailure("Error: e")

\* return {"success": False, "message": "Timeout", "stl_data": None}
MeshTimeout    == MeshFailure("Timeout")
MeshError      == MeshFailure("Error: e")
\* a rejected submission reported as a finished job
ApiError_AsSuccess(code) == MeshSuccess("glb bytes 1")

\* return {"success": False, "message": f"API error: {status_code}", ...}
ApiError(code) ==
    MeshFailure(CASE code = 401 -> "API error: 401"
                  [] code = 500 -> "API error: 500")

\* error_msg = status_data.get("error") or status_data.get("task_error")
\*             or "Unknown error"
ProviderErrors == { "", "task_error: quota exceeded" }
MeshyFailed(err) ==
    MeshFailure(IF err = "" THEN "Meshy failed: Unknown error"
                ELSE "Meshy failed: task_error: quota exceeded")

\* PromptEnhancer.enhance: a prompt of 15 characters or more is kept
NeedsEnhancing(text) == ~(Len(Strip(text)) >= ENHANCE_MIN_LEN)

\* response.status_code not in [200, 202]
HttpCodes == { 200, 202, 401, 500 }
Accepted(code) == code \in { 200, 202 }

\* task_id = response_data.get("result") or response_data.get("id")
SubmitBodies == { "result", "id", "no_id", "not_json" }
HasTaskId(body) == body \in { "result", "id" }

SubmitOutcomes ==
    { [ kind |-> "raise", status_code |-> 0, body |-> "" ] } \cup
    { [ kind |-> "response", status_code |-> c, body |-> b ] :
        c \in HttpCodes, b \in SubmitBodies }

\* the statuses a provider may answer
Statuses == { "PENDING", "IN_PROGRESS", "SUCCEEDED", "FAILED", "CANCELED" }

\* if status == "SUCCEEDED"
Succeeded(st) == st = "SUCCEEDED"

\* a loop that does not tell FAILED from a job still running
Failed_Never(st) == FALSE

\* elif status == "FAILED"
Failed(st) == st = "FAILED"

\* model_data = requests.get(glb_url).content
AssetBytes == { "glb bytes 1", "glb bytes 2" }

PollOutcomes ==
    { [ kind |-> "raise", status |-> "", glb |-> FALSE, error |-> "" ] } \cup
    { [ kind |-> "response", status |-> st, glb |-> FALSE, error |-> "" ] :
        st \in Statuses \ { "SUCCEEDED", "FAILED" } } \cup
    { [ kind |-> "response", status |-> "SUCCEEDED", glb |-> g, error |-> "" ] :
        g \in BOOLEAN } \cup
    { [ kind |-> "response", status |-> "FAILED", glb |-> FALSE, error |-> e ] :
        e \in ProviderErrors }

\* a loop that runs once too often
MorePolls_OneMore(n) == n <= POLL_ITERATIONS

\* for i in range(40): another status request is made while i < 40
MorePolls(n) == n < POLL_ITERATIONS

(***************************************************************************)
(* parse_openscad_to_threejs (unified_app.py): text scanning.              *)
(* A text is a sequence of characters, a position an index into it; the    *)
(* position Len(s) + 1 stands for the end of the text.                     *)
(***************************************************************************)
Digits == { "0","1","2","3","4","5","6","7","8","9" }

DigitValue(c) ==
    CASE c = "0" -> 0 [] c = "1" -> 1 [] c = "2" -> 2 [] c = "3" -> 3
      [] c = "4" -> 4 [] c = "5" -> 5 [] c = "6" -> 6 [] c = "7" -> 7
      [] c = "8" -> 8 [] c = "9" -> 9

\* the least element of a non-empty set of positions
Least(S) == CHOOSE p \in S : \A q \in S : p <= q
\* the greatest element of a non-empty set of positions
Greatest(S) == CHOOSE p \in S : \A q \in S : q <= p

\* a local name: the value x, as v, in F(v)
With(x, F(_)) == F(x)

\* the literal lit stands in s at position p
LitAt(s, p, lit) ==
    /\ p >= 1
    /\ p + Len(lit) - 1 <= Len(s)
    /\ \A k \in 1..Len(lit) : s[p + k - 1] = lit[k]

\* the positions at or after p where lit stands
Occurrences(s, p, lit) == { q \in p..Len(s) : LitAt(s, q, lit) }

\* the position after the longest run, from p, of characters of chars
\* (a greedy character class: \s*, [\d.]+)
RunEnd(s, p, chars) ==
    LET stops == { q \in p..Len(s) : s[q] \notin chars }
    IN  IF stops = { } THEN Len(s) + 1 ELSE Least(stops)

\* the first position at or after p holding c; Len(s) + 1 when there is none
\* (a negated class up to its delimiter: [^\]]+ , [^c]* , [^)]* )
FirstAt(s, p, c) ==
    LET hits == { q \in p..Len(s) : s[q] = c }
    IN  IF hits = { } THEN Len(s) + 1 ELSE Least(hits)

\* s[a:b] of Python for positions: the characters a .. b-1
Slice(s, a, b) == SubSeq(s, a, b - 1)

\* str.split(sep) for a one-character separator
RECURSIVE Split(_, _)
Split(s, sep) ==
    LET at == FirstAt(s, 1, sep)
    IN  IF at > Len(s) THEN << s >>
        ELSE << Slice(s, 1, at) >> \o Split(Slice(s, at + 1, Len(s) + 1), sep)

(***************************************************************************)
(* float(text).  A value is kept exactly: num / 10^den, negated when neg,  *)
(* or one of the specials nan and inf.                                     *)
(***************************************************************************)
\* num / 10^den with the trailing zeros of the fraction removed
RECURSIVE Canonical(_, _)
Canonical(num, den) ==
    IF den > 0 /\ num % 10 = 0 THEN Canonical(num \div 10, den - 1)
    ELSE [ num |-> num, den |-> den ]

\* 10^k
RECURSIVE Pow10(_)
Pow10(k) == IF k = 0 THEN 1 ELSE 10 * Pow10(k - 1)

\* the float of an int literal of the source, such as the 0 of [0, 0, 0]
Number(n) == [ special |-> "", neg |-> FALSE, num |-> n, den |-> 0 ]

FloatError == [ ok |-> FALSE ]
FloatOk(v) == [ ok |-> TRUE, value |-> v ]

\* digits, with single underscores between them
IsDigitRun(t) ==
    /\ Len(t) >= 1
    /\ \A i \in 1..Len(t) : t[i] \in Digits \cup { "_" }
    /\ t[1] \in Digits /\ t[Len(t)] \in Digits
    /\ \A i \in 1..(Len(t) - 1) : ~(t[i] = "_" /\ t[i + 1] = "_")

\* the number a digit run writes
RECURSIVE NatOf(_)
NatOf(t) ==
    IF Len(t) = 0 THEN 0
    ELSE IF t[Len(t)] = "_" THEN NatOf(Slice(t, 1, Len(t)))
    ELSE 10 * NatOf(Slice(t, 1, Len(t))) + DigitValue(t[Len(t)])

\* the digits of a digit run, underscores dropped
DigitCount(t) == Cardinality({ i \in 1..Len(t) : t[i] \in Digits })

\* digits [ . [digits] ]  or  . digits
IsDecimal(t) ==
    LET dot == FirstAt(t, 1, ".")
        whole == Slice(t, 1, dot)
        frac  == Slice(t, dot + 1, Len(t) + 1)
    IN  IF dot > Len(t) THEN IsDigitRun(t)
        ELSE /\ Len(whole) = 0 \/ IsDigitRun(whole)
             /\ Len(frac) = 0 \/ IsDigitRun(frac)
             /\ Len(whole) + Len(frac) >= 1

\* a decimal as num / 10^den
DecimalOf(t) ==
    LET dot == FirstAt(t, 1, ".")
        whole == Slice(t, 1, dot)
        frac  == IF dot > Len(t) THEN << >> ELSE Slice(t, dot + 1, Len(t) + 1)
    IN  [ num |-> NatOf(whole) * Pow10(DigitCount(frac)) + NatOf(frac),
          den |-> DigitCount(frac) ]

HasSign(t) == Len(t) >= 1 /\ t[1] \in { "+", "-" }
Unsigned(t) == IF HasSign(t) THEN Tail(t) ELSE t

\* a decimal d times ten to the exponent the text expo writes, when there
\* is one
Scaled(d, has_exponent, expo) ==
    LET shift == NatOf(Unsigned(expo))
    IN  IF ~has_exponent THEN Canonical(d.num, d.den)
        ELSE IF HasSign(expo) /\ expo[1] = "-" THEN Canonical(d.num, d.den + shift)
        ELSE IF shift >= d.den THEN Canonical(d.num * Pow10(shift - d.den), 0)
        ELSE Canonical(d.num, d.den - shift)

\* float(): surrounding whitespace dropped, an optional sign, then nan, inf,
\* infinity in any letter case, or a decimal with an optional exponent;
\* anything else raises ValueError
ParseFloat(text) ==
    With(Strip(text), LAMBDA t :
    With(Unsigned(t), LAMBDA body :
    With(Least({ q \in 1..Len(body) : body[q] \in { "e", "E" } }
                 \cup { Len(body) + 1 }), LAMBDA epos :
    With(Slice(body, 1, epos), LAMBDA mant :
    With(Slice(body, epos + 1, Len(body) + 1), LAMBDA expo :
    With(Scaled(DecimalOf(mant), epos <= Len(body), expo), LAMBDA c :
        IF Lower(body) = << "n","a","n" >>
        THEN FloatOk([ special |-> "nan", neg |-> FALSE, num |-> 0, den |-> 0 ])
        ELSE IF Lower(body) \in { << "i","n","f" >>,
                                  << "i","n","f","i","n","i","t","y" >> }
        THEN FloatOk([ special |-> "inf", neg |-> HasSign(t) /\ t[1] = "-",
                       num |-> 0, den |-> 0 ])
        ELSE IF /\ IsDecimal(mant)
                /\ epos > Len(body) \/ IsDigitRun(Unsigned(expo))
        THEN FloatOk([ special |-> "",
                       neg |-> HasSign(t) /\ t[1] = "-" /\ c.num # 0,
                       num |-> c.num, den |-> c.den ])
        ELSE FloatError))))))

\* [float(x) for x in texts]: the values, or ValueError when one text is no
\* float
ParseAll(texts) ==
    IF \A i \in 1..Len(texts) : ParseFloat(texts[i]).ok
    THEN [ ok |-> TRUE,
           values |-> [ i \in 1..Len(texts) |-> ParseFloat(texts[i]).value ] ]
    ELSE [ ok |-> FALSE ]

\* [float(x.strip()) for x in group.split(',')]
ParseFloats(group) == ParseAll(Split(group, ","))

\* Python's == on two floats: nan equals nothing, -0.0 equals 0.0
FloatEq(a, b) == a.special # "nan" /\ a = b
\* Python's == on two lists of floats
FloatsEq(a, b) ==
    /\ Len(a) = Len(b)
    /\ \A i \in 1..Len(a) : FloatEq(a[i], b[i])

(***************************************************************************)
(* parse_openscad_to_threejs: comment removal and the regular expressions. *)
(* A match is a record: where it starts, the position after it (stop), and *)
(* the texts of its groups.                                                *)
(***************************************************************************)
\* the characters \s matches and strip() removes
WhiteSpace == { " ", "\n", "\t" }

\* the character at p, "" past the end
CharAt(s, p) == IF p \in 1..Len(s) THEN s[p] ELSE ""

\* re.sub(r'//.*', '', text): every "//" goes with the rest of its line
RECURSIVE StripLineComments(_)
StripLineComments(s) ==
    LET found == Occurrences(s, 1, << "/", "/" >>)
    IN  IF found = { } THEN s
        ELSE LET at == Least(found)
                 eol == FirstAt(s, at, "\n")
             IN  Slice(s, 1, at) \o StripLineComments(Slice(s, eol, Len(s) + 1))

\* re.sub(r'/\*.*?\*/', '', text, flags=re.DOTALL): every "/*" goes up to
\* the next "*/"; a "/*" that is never closed stays
RECURSIVE StripBlockComments(_)
StripBlockComments(s) ==
    LET opened == Occurrences(s, 1, << "/", "*" >>)
    IN  IF opened = { } THEN s
        ELSE LET at == Least(opened)
                 closed == Occurrences(s, at + 2, << "*", "/" >>)
             IN  IF closed = { } THEN s
                 ELSE Slice(s, 1, at) \o
                      StripBlockComments(Slice(s, Least(closed) + 2, Len(s) + 1))

RemoveComments(scad_code) == StripBlockComments(StripLineComments(scad_code))

NoMatch == [ ok |-> FALSE ]

lit_translate == << "t","r","a","n","s","l","a","t","e" >>
lit_cube      == << "c","u","b","e" >>
lit_cylinder  == << "c","y","l","i","n","d","e","r" >>
lit_sphere    == << "s","p","h","e","r","e" >>
key_h  == << "h" >>
key_r  == << "r" >>
key_r1 == << "r","1" >>
key_r2 == << "r","2" >>

\* translate\s*\(\s*\[([^\]]+)\]\s*\)  at p
TranslateHead(s, p) ==
    LET a == RunEnd(s, p + Len(lit_translate), WhiteSpace)
        b == RunEnd(s, a + 1, WhiteSpace)
        c == FirstAt(s, b + 1, "]")
        d == RunEnd(s, c + 1, WhiteSpace)
    IN  IF /\ LitAt(s, p, lit_translate)
           /\ CharAt(s, a) = "("
           /\ CharAt(s, b) = "["
           /\ c <= Len(s) /\ c > b + 1
           /\ CharAt(s, d) = ")"
        THEN [ ok |-> TRUE, start |-> p, stop |-> d + 1, pos |-> Slice(s, b + 1, c) ]
        ELSE NoMatch

\* cube\s*\(\s*\[([^\]]+)\]  at p
CubeAt(s, p) ==
    LET a == RunEnd(s, p + Len(lit_cube), WhiteSpace)
        b == RunEnd(s, a + 1, WhiteSpace)
        c == FirstAt(s, b + 1, "]")
    IN  IF /\ LitAt(s, p, lit_cube)
           /\ CharAt(s, a) = "("
           /\ CharAt(s, b) = "["
           /\ c <= Len(s) /\ c > b + 1
        THEN [ ok |-> TRUE, start |-> p, stop |-> c + 1, size |-> Slice(s, b + 1, c) ]
        ELSE NoMatch

\* key\s*=\s*([\d.]+)  at p: the group runs from `from` to before `stop`
KeyAt(s, p, key) ==
    LET x == RunEnd(s, p + Len(key), WhiteSpace)
        y == RunEnd(s, x + 1, WhiteSpace)
        z == RunEnd(s, y, Digits \cup { "." })
    IN  IF LitAt(s, p, key) /\ CharAt(s, x) = "=" /\ z > y
        THEN [ ok |-> TRUE, from |-> y, stop |-> z ]
        ELSE NoMatch

\* cylinder\s*\(  at p: the position after the parenthesis, 0 when absent
CylinderOpen(s, p) ==
    LET a == RunEnd(s, p + Len(lit_cylinder), WhiteSpace)
    IN  IF LitAt(s, p, lit_cylinder) /\ CharAt(s, a) = "(" THEN a + 1 ELSE 0

\* [^)]*r[12] from p: an r1 or r2 follows before the next ")"
RadiusPairAhead(s, p) ==
    \E q \in p..(FirstAt(s, p, ")") - 1) :
        LitAt(s, q, key_r1) \/ LitAt(s, q, key_r2)

\* cylinder\s*\( at p, then from a
\* [^)]*h\s*=\s*([\d.]+)[^)]*r1\s*=\s*([\d.]+)[^)]*r2\s*=\s*([\d.]+):
\* each greedy [^)]* takes the last place from which the rest still matches
ConeTail(s, p, a) ==
    LET b == FirstAt(s, a, ")")
        R2(from) == { q \in from..(b - 1) : KeyAt(s, q, key_r2).ok }
        R1(from) == { q \in from..(b - 1) :
                        KeyAt(s, q, key_r1).ok /\ R2(KeyAt(s, q, key_r1).stop) # { } }
        H == { q \in a..(b - 1) :
                 KeyAt(s, q, key_h).ok /\ R1(KeyAt(s, q, key_h).stop) # { } }
    IN  IF H = { } THEN NoMatch
        ELSE With(KeyAt(s, Greatest(H), key_h), LAMBDA h :
             With(KeyAt(s, Greatest(R1(h.stop)), key_r1), LAMBDA r1 :
             With(KeyAt(s, Greatest(R2(r1.stop)), key_r2), LAMBDA r2 :
                 [ ok |-> TRUE, start |-> p, stop |-> r2.stop,
                   h  |-> Slice(s, h.from, h.stop),
                   r1 |-> Slice(s, r1.from, r1.stop),
                   r2 |-> Slice(s, r2.from, r2.stop) ])))

\* cylinder\s*\( at p, then from a
\* [^)]*h\s*=\s*([\d.]+)[^)]*r\s*=\s*([\d.]+), followed when lookahead is
\* set by (?![^)]*r[12])
CylinderTail(s, p, a, lookahead) ==
    LET b == FirstAt(s, a, ")")
        R(from) == { q \in from..(b - 1) :
                       /\ KeyAt(s, q, key_r).ok
                       /\ lookahead => ~RadiusPairAhead(s, KeyAt(s, q, key_r).stop) }
        H == { q \in a..(b - 1) :
                 KeyAt(s, q, key_h).ok /\ R(KeyAt(s, q, key_h).stop) # { } }
    IN  IF H = { } THEN NoMatch
        ELSE With(KeyAt(s, Greatest(H), key_h), LAMBDA h :
             With(KeyAt(s, Greatest(R(h.stop)), key_r), LAMBDA r :
                 [ ok |-> TRUE, start |-> p, stop |-> r.stop,
                   h |-> Slice(s, h.from, h.stop),
                   r |-> Slice(s, r.from, r.stop) ]))

\* sphere\s*\(\s*r\s*=\s*([\d.]+)  at p
SphereAt(s, p) ==
    LET a == RunEnd(s, p + Len(lit_sphere), WhiteSpace)
        b == RunEnd(s, a + 1, WhiteSpace)
        k == KeyAt(s, b, key_r)
    IN  IF LitAt(s, p, lit_sphere) /\ CharAt(s, a) = "(" /\ k.ok
        THEN [ ok |-> TRUE, start |-> p, stop |-> k.stop,
               r |-> Slice(s, k.from, k.stop) ]
        ELSE NoMatch

Patterns ==
    { "translate_cube", "cube", "translate_cone", "cone",
      "translate_cylinder", "cylinder", "sphere" }

\* the match, at p, of the primitive a pattern ends with
Primitive(pattern, s, p) ==
    CASE pattern \in { "translate_cube", "cube" } -> CubeAt(s, p)
      [] pattern \in { "translate_cone", "cone" } ->
           IF CylinderOpen(s, p) = 0 THEN NoMatch
           ELSE ConeTail(s, p, CylinderOpen(s, p))
      [] pattern \in { "translate_cylinder", "cylinder" } ->
           IF CylinderOpen(s, p) = 0 THEN NoMatch
           ELSE CylinderTail(s, p, CylinderOpen(s, p), pattern = "cylinder")
      [] pattern = "sphere" -> SphereAt(s, p)

\* translate(...) matched as t, then [^c]*, then the primitive matched as m
Translated(t, m) ==
    IF ~m.ok THEN NoMatch
    ELSE [ g \in DOMAIN m \cup { "pos" } |->
             IF g = "start" THEN t.start ELSE IF g = "pos" THEN t.pos ELSE m[g] ]

\* the match of a pattern that starts at p.  After translate(...) the
\* class [^c]* runs to the next letter c, where the primitive must stand.
MatchAt(pattern, s, p) ==
    IF pattern \in { "translate_cube", "translate_cone", "translate_cylinder" }
    THEN With(TranslateHead(s, p), LAMBDA t :
             IF ~t.ok THEN NoMatch
             ELSE Translated(t, Primitive(pattern, s, FirstAt(s, t.stop, "c"))))
    ELSE Primitive(pattern, s, p)

\* re.finditer(pattern, s): the matches from left to right, each search
\* starting where the last match stopped
RECURSIVE FindIter(_, _, _)
FindIter(pattern, s, from) ==
    With({ p \in from..Len(s) : MatchAt(pattern, s, p).ok }, LAMBDA starts :
        IF starts = { } THEN << >>
        ELSE With(MatchAt(pattern, s, Least(starts)), LAMBDA m :
                 << m >> \o FindIter(pattern, s, m.stop)))

(***************************************************************************)
(* parse_openscad_to_threejs: the shapes and the seven loops.              *)
(***************************************************************************)
\* code[max(0, match.start() - 50) : match.start()]
LOOKBACK == 50
\* the side of the cube returned when no shape was found
DEFAULT_CUBE_SIDE == 50

\* [0, 0, 0]
Origin == << Number(0), Number(0), Number(0) >>

Cube(size, pos) == [ type |-> "cube", size |-> size, position |-> pos ]
Cone(h, r1, r2, pos) ==
    [ type |-> "cone", height |-> h, radiusTop |-> r1, radiusBottom |-> r2,
      position |-> pos ]
Cylinder(h, r, pos) ==
    [ type |-> "cylinder", height |-> h, radius |-> r, position |-> pos ]
Sphere(r) == [ type |-> "sphere", radius |-> r, position |-> Origin ]

\* a default of one millimetre
DefaultShape_Unit == Cube(<< Number(1), Number(1), Number(1) >>, Origin)

\* {'type': 'cube', 'size': [50, 50, 50], 'position': [0, 0, 0]}
DefaultShape ==
    Cube(<< Number(DEFAULT_CUBE_SIDE), Number(DEFAULT_CUBE_SIDE),
            Number(DEFAULT_CUBE_SIDE) >>, Origin)

\* a parser whose standalone-cube loop has no try
ExtractorTrySites_NoCube == Patterns \ { "cube" }

\* the loops whose body stands in try: ... except: pass
ExtractorTrySites == Patterns

\* the walk through the loops: the shapes so far, and whether an exception
\* has left the function
Walk(objects, raised) == [ objects |-> objects, raised |-> raised ]

\* objects.append(shape)
AppendShape(w, shape) == Walk(Append(w.objects, shape), w.raised)

\* a conversion raised ValueError in the loop of pattern
ConversionFailed(pattern, w) ==
    IF pattern \in ExtractorTrySites THEN w ELSE Walk(w.objects, TRUE)

\* the 50 characters before a match
Lookback(code, start) ==
    Slice(code, IF start - LOOKBACK < 1 THEN 1 ELSE start - LOOKBACK, start)

\* any(obj['type'] == 'cube' and obj['size'] == size for obj in objects)
HasCubeOfSize(objects, size) ==
    \E i \in 1..Len(objects) :
        objects[i].type = "cube" /\ FloatsEq(objects[i].size, size)

\* match.start() in [m.end() - len(match.group(0)) for m in translated]
CapturedWithTranslate(code, m) ==
    With(FindIter("translate_cube", code, 1), LAMBDA translated :
        \E i \in 1..Len(translated) :
            m.start = translated[i].stop - (m.stop - m.start))

\* the end of a loop body in which the conversions gave v: the shape is
\* appended, or ValueError was raised
Converted(pattern, w, v, shape) ==
    IF v.ok THEN AppendShape(w, shape) ELSE ConversionFailed(pattern, w)

\* one iteration of the loop over the matches of pattern
Visit(pattern, code, m, w) ==
    CASE pattern = "translate_cube" ->
           With(ParseFloats(m.pos), LAMBDA pos :
           With(ParseFloats(m.size), LAMBDA size :
               IF ~pos.ok THEN ConversionFailed(pattern, w)
               ELSE Converted(pattern, w, size, Cube(size.values, pos.values))))
      [] pattern = "cube" ->
           With(ParseFloats(m.size), LAMBDA size :
               IF CapturedWithTranslate(code, m) THEN w
               ELSE IF ~size.ok THEN ConversionFailed(pattern, w)
               ELSE IF HasCubeOfSize(w.objects, size.values) THEN w
               ELSE AppendShape(w, Cube(size.values, Origin)))
      [] pattern = "translate_cone" ->
           With(ParseFloats(m.pos), LAMBDA pos :
           With(ParseAll(<< m.h, m.r1, m.r2 >>), LAMBDA v :
               IF ~pos.ok THEN ConversionFailed(pattern, w)
               ELSE Converted(pattern, w, v,
                              Cone(v.values[1], v.values[2], v.values[3], pos.values))))
      [] pattern = "cone" ->
           With(ParseAll(<< m.h, m.r1, m.r2 >>), LAMBDA v :
               IF Contains(Lookback(code, m.start), lit_translate) THEN w
               ELSE Converted(pattern, w, v,
                              Cone(v.values[1], v.values[2], v.values[3], Origin)))
      [] pattern = "translate_cylinder" ->
           With(ParseFloats(m.pos), LAMBDA pos :
           With(ParseAll(<< m.h, m.r >>), LAMBDA v :
               IF ~pos.ok THEN ConversionFailed(pattern, w)
               ELSE Converted(pattern, w, v,
                              Cylinder(v.values[1], v.values[2], pos.values))))
      [] pattern = "cylinder" ->
           With(ParseAll(<< m.h, m.r >>), LAMBDA v :
               IF \/ Contains(Lookback(code, m.start), lit_translate)
                  \/ Contains(Slice(code, m.start, m.stop), key_r1)
               THEN w
               ELSE Converted(pattern, w, v,
                              Cylinder(v.values[1], v.values[2], Origin)))
      [] pattern = "sphere" ->
           With(ParseFloat(m.r), LAMBDA r :
               Converted(pattern, w, r, Sphere(r.value)))

\* for match in re.finditer(pattern, code): ...
RECURSIVE Loop(_, _, _, _, _)
Loop(pattern, code, matches, i, w) ==
    IF w.raised \/ i > Len(matches) THEN w
    ELSE Loop(pattern, code, matches, i + 1, Visit(pattern, code, matches[i], w))

\* the loops in the order of the source
PatternOrder ==
    << "translate_cube", "cube", "translate_cone", "cone",
       "translate_cylinder", "cylinder", "sphere" >>

RECURSIVE Loops(_, _, _)
Loops(code, k, w) ==
    IF k > Len(PatternOrder) THEN w
    ELSE Loops(code, k + 1,
               Loop(PatternOrder[k], code, FindIter(PatternOrder[k], code, 1), 1, w))

\* return objects if objects else [the default cube]
ReturnValue(w) ==
    IF w.raised \/ Len(w.objects) > 0 THEN w ELSE Walk(<< DefaultShape >>, FALSE)

\* parse_openscad_to_threejs(scad_code): the list it returns, or raised
ParseOpenscad(scad_code) ==
    ReturnValue(Loops(RemoveComments(scad_code), 1, Walk(<< >>, FALSE)))

(***************************************************************************)
(* FallbackPatterns (unified_app.py): the source text each template        *)
(* renders.  Every line of the f-string is given as the source has it,     *)
(* above the characters that model it.                                     *)
(***************************************************************************)
DigitChars == << "0","1","2","3","4","5","6","7","8","9" >>

\* str(n) as an f-string writes a non-negative int
RECURSIVE Str(_)
Str(n) ==
    IF n < 10 THEN << DigitChars[n + 1] >>
    ELSE Str(n \div 10) \o << DigitChars[(n % 10) + 1] >>

\* the lines of a text, each ended by a newline
RECURSIVE Lines(_)
Lines(ls) ==
    IF Len(ls) = 0 THEN << >>
    ELSE ls[1] \o << "\n" >> \o Lines(Tail(ls))

\* FallbackPatterns.funnel(...): the text of the f-string, line by line
FunnelSource(top_diameter, bottom_diameter, height, wall_thickness) ==
    Lines(<<
      \* // Parametric Funnel WITH HOLE
        << "/","/"," ","P","a","r","a","m","e","t","r","i","c"," ","F","u",
           "n","n","e","l"," ","W","I","T","H"," ","H","O","L","E" >>,
      \* top_d = {top_diameter};
        << "t","o","p","_","d"," ","="," " >> \o Str(top_diameter) \o << ";" >>,
      \* bottom_d = {bottom_diameter};
        << "b","o","t","t","o","m","_","d"," ","="," " >> \o Str(bottom_diameter) \o << ";" >>,
      \* height = {height};
        << "h","e","i","g","h","t"," ","="," " >> \o Str(height) \o << ";" >>,
      \* wall = {wall_thickness};
        << "w","a","l","l"," ","="," " >> \o Str(wall_thickness) \o << ";" >>,
      \* (an empty line)
        <<  >>,
      \* difference() {{
        << "d","i","f","f","e","r","e","n","c","e","(",")"," ","{" >>,
      \*     // Outer cone
        << " "," "," "," ","/","/"," ","O","u","t","e","r"," ","c","o","n","e" >>,
      \*     cylinder(h=height, r1=top_d/2, r2=bottom_d/2, $fn=100);
        << " "," "," "," ","c","y","l","i","n","d","e","r","(","h","=","h",
           "e","i","g","h","t",","," ","r","1","=","t","o","p","_","d","/",
           "2",","," ","r","2","=","b","o","t","t","o","m","_","d","/","2",
           ","," ","$","f","n","=","1","0","0",")",";" >>,
      \* (an empty line)
        << " "," "," "," " >>,
      \*     // Inner cone (hollow)
        << " "," "," "," ","/","/"," ","I","n","n","e","r"," ","c","o","n",
           "e"," ","(","h","o","l","l","o","w",")" >>,
      \*     translate([0, 0, wall])
        << " "," "," "," ","t","r","a","n","s","l","a","t","e","(","[","0",
           ","," ","0",","," ","w","a","l","l","]",")" >>,
      \*         cylinder(h=height, r1=(top_d/2)-wall, r2=(bottom_d/2)-wall, $fn=100);
        << " "," "," "," "," "," "," "," ","c","y","l","i","n","d","e","r",
           "(","h","=","h","e","i","g","h","t",","," ","r","1","=","(","t",
           "o","p","_","d","/","2",")","-","w","a","l","l",","," ","r","2",
           "=","(","b","o","t","t","o","m","_","d","/","2",")","-","w","a",
           "l","l",","," ","$","f","n","=","1","0","0",")",";" >>,
      \* (an empty line)
        << " "," "," "," " >>,
      \*     // Bottom opening (ensures liquid can flow through!)
        << " "," "," "," ","/","/"," ","B","o","t","t","o","m"," ","o","p",
           "e","n","i","n","g"," ","(","e","n","s","u","r","e","s"," ","l",
           "i","q","u","i","d"," ","c","a","n"," ","f","l","o","w"," ","t",
           "h","r","o","u","g","h","!",")" >>,
      \*     translate([0, 0, -1])
        << " "," "," "," ","t","r","a","n","s","l","a","t","e","(","[","0",
           ","," ","0",","," ","-","1","]",")" >>,
      \*         cylinder(h=wall+2, r=(bottom_d/2)-wall, $fn=50);
        << " "," "," "," "," "," "," "," ","c","y","l","i","n","d","e","r",
           "(","h","=","w","a","l","l","+","2",","," ","r","=","(","b","o",
           "t","t","o","m","_","d","/","2",")","-","w","a","l","l",","," ",
           "$","f","n","=","5","0",")",";" >>,
      \* }}
        << "}" >>,
      \* (an empty line)
        <<  >>,
      \* // Spout extension (hollow tube)
        << "/","/"," ","S","p","o","u","t"," ","e","x","t","e","n","s","i",
           "o","n"," ","(","h","o","l","l","o","w"," ","t","u","b","e",")" >>,
      \* difference() {{
        << "d","i","f","f","e","r","e","n","c","e","(",")"," ","{" >>,
      \*     translate([0, 0, -10])
        << " "," "," "," ","t","r","a","n","s","l","a","t","e","(","[","0",
           ","," ","0",","," ","-","1","0","]",")" >>,
      \*         cylinder(h=10, r=bottom_d/2, $fn=50);
        << " "," "," "," "," "," "," "," ","c","y","l","i","n","d","e","r",
           "(","h","=","1","0",","," ","r","=","b","o","t","t","o","m","_",
           "d","/","2",","," ","$","f","n","=","5","0",")",";" >>,
      \*     translate([0, 0, -11])
        << " "," "," "," ","t","r","a","n","s","l","a","t","e","(","[","0",
           ","," ","0",","," ","-","1","1","]",")" >>,
      \*         cylinder(h=12, r=(bottom_d/2)-wall, $fn=50);
        << " "," "," "," "," "," "," "," ","c","y","l","i","n","d","e","r",
           "(","h","=","1","2",","," ","r","=","(","b","o","t","t","o","m",
           "_","d","/","2",")","-","w","a","l","l",","," ","$","f","n","=",
           "5","0",")",";" >>,
      \* }}
        << "}" >> >>)

\* FallbackPatterns.bracket(...)
BracketSource(width, height, thickness, hole_diameter) ==
    Lines(<<
      \* // L-Bracket
        << "/","/"," ","L","-","B","r","a","c","k","e","t" >>,
      \* width = {width};
        << "w","i","d","t","h"," ","="," " >> \o Str(width) \o << ";" >>,
      \* height = {height};
        << "h","e","i","g","h","t"," ","="," " >> \o Str(height) \o << ";" >>,
      \* thick = {thickness};
        << "t","h","i","c","k"," ","="," " >> \o Str(thickness) \o << ";" >>,
      \* hole_d = {hole_diameter};
        << "h","o","l","e","_","d"," ","="," " >> \o Str(hole_diameter) \o << ";" >>,
      \* (an empty line)
        <<  >>,
      \* difference() {{
        << "d","i","f","f","e","r","e","n","c","e","(",")"," ","{" >>,
      \*     union() {{
        << " "," "," "," ","u","n","i","o","n","(",")"," ","{" >>,
      \*         cube([thick, width, height]);
        << " "," "," "," "," "," "," "," ","c","u","b","e","(","[","t","h",
           "i","c","k",","," ","w","i","d","t","h",","," ","h","e","i","g",
           "h","t","]",")",";" >>,
      \*         cube([width, width, thick]);
        << " "," "," "," "," "," "," "," ","c","u","b","e","(","[","w","i",
           "d","t","h",","," ","w","i","d","t","h",","," ","t","h","i","c",
           "k","]",")",";" >>,
      \*     }}
        << " "," "," "," ","}" >>,
      \*     translate([thick/2, width/2, height - 10])
        << " "," "," "," ","t","r","a","n","s","l","a","t","e","(","[","t",
           "h","i","c","k","/","2",","," ","w","i","d","t","h","/","2",",",
           " ","h","e","i","g","h","t"," ","-"," ","1","0","]",")" >>,
      \*         rotate([0, 90, 0])
        << " "," "," "," "," "," "," "," ","r","o","t","a","t","e","(","[",
           "0",","," ","9","0",","," ","0","]",")" >>,
      \*         cylinder(h=thick*2, r=hole_d/2, center=true, $fn=30);
        << " "," "," "," "," "," "," "," ","c","y","l","i","n","d","e","r",
           "(","h","=","t","h","i","c","k","*","2",","," ","r","=","h","o",
           "l","e","_","d","/","2",","," ","c","e","n","t","e","r","=","t",
           "r","u","e",","," ","$","f","n","=","3","0",")",";" >>,
      \*     translate([width - 10, width/2, thick/2])
        << " "," "," "," ","t","r","a","n","s","l","a","t","e","(","[","w",
           "i","d","t","h"," ","-"," ","1","0",","," ","w","i","d","t","h",
           "/","2",","," ","t","h","i","c","k","/","2","]",")" >>,
      \*         cylinder(h=thick*2, r=hole_d/2, center=true, $fn=30);
        << " "," "," "," "," "," "," "," ","c","y","l","i","n","d","e","r",
           "(","h","=","t","h","i","c","k","*","2",","," ","r","=","h","o",
           "l","e","_","d","/","2",","," ","c","e","n","t","e","r","=","t",
           "r","u","e",","," ","$","f","n","=","3","0",")",";" >>,
      \* }}
        << "}" >> >>)

\* lid_code of FallbackPatterns.box(..., lid=True)
LidSource(length, width, wall_thickness) ==
    Lines(<<
      \* (an empty line)
        <<  >>,
      \* translate([0, {width + 10}, 0])
        << "t","r","a","n","s","l","a","t","e","(","[","0",","," " >> \o Str(width + 10) \o << ","," ","0","]",")" >>,
      \* difference() {{
        << "d","i","f","f","e","r","e","n","c","e","(",")"," ","{" >>,
      \*     cube([{length}, {width}, 5]);
        << " "," "," "," ","c","u","b","e","(","[" >> \o Str(length) \o << ","," " >> \o Str(width) \o << ","," ","5","]",")",";" >>,
      \*     translate([{wall_thickness}, {wall_thickness}, -1])
        << " "," "," "," ","t","r","a","n","s","l","a","t","e","(","[" >> \o Str(wall_thickness) \o << ","," " >> \o Str(wall_thickness) \o << ","," ","-","1","]",")" >>,
      \*         cube([{length - 2*wall_thickness}, {width - 2*wall_thickness}, 7]);
        << " "," "," "," "," "," "," "," ","c","u","b","e","(","[" >> \o Str(length - 2*wall_thickness) \o << ","," " >> \o Str(width - 2*wall_thickness) \o << ","," ","7","]",")",";" >>,
      \* }}
        << "}" >> >>)

\* FallbackPatterns.box(...); lid_code is "" without a lid
BoxSource(length, width, height, wall_thickness, lid_code) ==
    Lines(<<
      \* // Parametric Box
        << "/","/"," ","P","a","r","a","m","e","t","r","i","c"," ","B","o","x" >>,
      \* length = {length};
        << "l","e","n","g","t","h"," ","="," " >> \o Str(length) \o << ";" >>,
      \* width = {width};
        << "w","i","d","t","h"," ","="," " >> \o Str(width) \o << ";" >>,
      \* height = {height};
        << "h","e","i","g","h","t"," ","="," " >> \o Str(height) \o << ";" >>,
      \* wall = {wall_thickness};
        << "w","a","l","l"," ","="," " >> \o Str(wall_thickness) \o << ";" >>,
      \* (an empty line)
        <<  >>,
      \* difference() {{
        << "d","i","f","f","e","r","e","n","c","e","(",")"," ","{" >>,
      \*     cube([length, width, height]);
        << " "," "," "," ","c","u","b","e","(","[","l","e","n","g","t","h",
           ","," ","w","i","d","t","h",","," ","h","e","i","g","h","t","]",
           ")",";" >>,
      \*     translate([wall, wall, wall])
        << " "," "," "," ","t","r","a","n","s","l","a","t","e","(","[","w",
           "a","l","l",","," ","w","a","l","l",","," ","w","a","l","l","]",")" >>,
      \*         cube([length - 2*wall, width - 2*wall, height]);
        << " "," "," "," "," "," "," "," ","c","u","b","e","(","[","l","e",
           "n","g","t","h"," ","-"," ","2","*","w","a","l","l",","," ","w",
           "i","d","t","h"," ","-"," ","2","*","w","a","l","l",","," ","h",
           "e","i","g","h","t","]",")",";" >>,
      \* }}
        << "}" >>,
      \* {lid_code}
        lid_code >>)

\* the text of a template with the default parameters of its signature
TemplateSource(t) ==
    CASE t = "funnel"  -> FunnelSource(100, 20, 80, 2)
      [] t = "bracket" -> BracketSource(50, 40, 5, 5)
      [] t = "box"     -> BoxSource(100, 80, 60, 2, << >>)
      [] t = "box_lid" -> BoxSource(100, 80, 60, 2, LidSource(100, 80, 2))

(***************************************************************************)
(* The source texts the extractor is run on: the empty text, the texts of  *)
(* up to MaxStatements fragments, well-formed and malformed, and the four  *)
(* templates with their default parameters.                                *)
(***************************************************************************)
Fragments ==
    {
      \* a cube with numbers
      << "c","u","b","e","(","[","1",",","2",",","3","]",")",";" >>,
      \* a cube with a non-numeric argument
      << "c","u","b","e","(","[","a",",","2",",","3","]",")",";" >>,
      \* a cube whose bracket is never closed
      << "c","u","b","e","(","[","1",",","2" >>,
      \* a translation
      << "t","r","a","n","s","l","a","t","e","(","[","1",",","0",",","0","]",
         ")"," " >>,
      \* a cone
      << "c","y","l","i","n","d","e","r","(","h","=","1","0",","," ","r","1",
         "=","5",","," ","r","2","=","2",")",";" >>,
      \* a cylinder
      << "c","y","l","i","n","d","e","r","(","h","=","1","0",","," ","r","=",
         "5",")",";" >>,
      \* a sphere whose radius is no number
      << "s","p","h","e","r","e","(","r","=","1",".","2",".","3",")",";" >>,
      \* a sphere
      << "s","p","h","e","r","e","(","r","=","2",")",";" >>,
      \* the opening of a block comment
      << "/","*"," " >>,
      \* the closing of a block comment
      << " ","*","/" >>,
      \* the opening of a line comment
      << "/","/"," " >>,
      \* a line break
      << "\n" >> }

RECURSIVE Concat(_)
Concat(ts) == IF Len(ts) = 0 THEN << >> ELSE ts[1] \o Concat(Tail(ts))

Sources ==
    { << >> } \cup
    { Concat(ts) : ts \in UNION { [1..k -> Fragments] : k \in 1..MaxStatements } } \cup
    { TemplateSource(t) : t \in Templates }

(***************************************************************************)
(* State.                                                                  *)
(***************************************************************************)
VARIABLES
    rev,           \* the revision that runs: "store_ai" or "unified_app"
    meshy_key,     \* OrganicMeshGenerator.meshy_key is configured
    triposr_key,   \* the secrets hold a key of the provider TRIPOSR
    pc,            \* where process_request stands
    user_input,    \* the request text
    reply,         \* the classifier's reply, until the request is routed
    request_type,  \* what classify returned
    attempt,       \* generate's attempt parameter
    scad_code,     \* the candidate source in hand (scad_code / corrected_code)
    error_msg,     \* the error text of the last failed compile
    temp_scad,     \* the contents of /tmp/temp_model.scad
    last_run,      \* the last call of compile: its source and outcome
    fails,         \* the failed compiles in a row of this request
    prompt,        \* the prompt handed to the mesh provider
    polls,         \* the loop variable of the polling loop
    status_data,   \* the provider's last answer to a status request
    result,        \* the record process_request returns
    raised,        \* an exception left process_request
    calls,         \* how often each collaborator was called for the request
    faults,        \* the component failures met while serving the request
    scad_source,   \* the text handed to parse_openscad_to_threejs
    parse_pc,      \* where the call of the extractor stands
    objects,       \* the list the extractor returned
    parse_raised,  \* an exception left the extractor
    anthropic_api_key, \* secrets['anthropic_api_key'] is set
    history,       \* st.session_state['3d_history']
    click,         \* the form submission the last script run served
    jobs           \* calls of generate by processes that share /tmp

vars ==
    << rev, meshy_key, pc, user_input, reply, request_type, attempt, scad_code,
       error_msg, temp_scad, last_run, fails, prompt, polls, status_data,
       result, raised, calls, faults, scad_source, parse_pc, objects,
       parse_raised, triposr_key, anthropic_api_key, history, click, jobs >>

\* the variables of the generate / compile / self-correct loop
loopVars == << attempt, scad_code, error_msg, temp_scad, last_run, fails >>
\* the variables of the mesh generator
meshVars == << prompt, polls, status_data >>
\* the variables of a call of the extractor
previewVars == << scad_source, parse_pc, objects, parse_raised >>
\* the variables of the generator page
sessionVars == << anthropic_api_key, history, click >>
\* what never changes while a request is served
fixedVars == << rev, meshy_key, triposr_key, previewVars, sessionVars, jobs >>

Revisions == { "store_ai", "unified_app" }

CallKinds ==
    { "classify", "fallbacks", "generate", "correct", "compile", "mesh",
      "enhance", "submit", "poll", "fetch" }

NoCalls == [ k \in CallKinds |-> 0 ]
Count(c, k) == [ c EXCEPT ![k] = @ + 1 ]

NoReply  == << "<", "n", "o", "n", "e", ">" >>
NoResult == [ pending |-> TRUE ]
NoStatus == [ kind |-> "none", status |-> "", glb |-> FALSE, error |-> "" ]

\* no other process runs generate
NoJobs == << >>

\* no request is being served
AgentIdle ==
    /\ pc = "idle"
    /\ user_input = << >>
    /\ reply = NoReply
    /\ request_type = UNKNOWN
    /\ attempt = 0
    /\ scad_code = EmptyCode
    /\ error_msg = << >>
    /\ temp_scad = EmptyCode
    /\ last_run = NoRun
    /\ fails = 0
    /\ prompt = ""
    /\ polls = 0
    /\ status_data = NoStatus
    /\ result = NoResult
    /\ raised = FALSE
    /\ calls = NoCalls
    /\ faults = { }

\* the extractor is not called
PreviewIdle ==
    /\ scad_source = << >>
    /\ parse_pc = "idle"
    /\ objects = << >>
    /\ parse_raised = FALSE

\* the page has served no form submission
NoClick == [ button |-> "none" ]
SessionIdle ==
    /\ anthropic_api_key = TRUE
    /\ history = << >>
    /\ click = NoClick

Init ==
    /\ rev \in Revisions
    /\ meshy_key \in (IF rev = "unified_app" THEN BOOLEAN ELSE { FALSE })
    /\ triposr_key \in (IF meshy_key THEN BOOLEAN ELSE { FALSE })
    /\ AgentIdle
    /\ PreviewIdle
    /\ SessionIdle
    /\ jobs = NoJobs

\* process_request returns r
Return(r) ==
    /\ pc' = "done"
    /\ result' = r
    /\ UNCHANGED raised

\* an exception leaves process_request: no record is returned
Raise ==
    /\ pc' = "done"
    /\ raised' = TRUE
    /\ UNCHANGED result

\* process_request goes on at label
Goto(label) ==
    /\ pc' = label
    /\ UNCHANGED << result, raised >>

Fault(f) == faults' = faults \cup { f }

(***************************************************************************)
(* ModelAgent.process_request is entered with a request.                   *)
(***************************************************************************)
ProcessRequest ==
    /\ pc = "idle"
    /\ \E text \in Requests : user_input' = text
    /\ Goto("classify")
    /\ UNCHANGED << fixedVars, reply, request_type, loopVars, meshVars, calls,
                    faults >>

(***************************************************************************)
(* RequestClassifier.classify: one call of the language model.             *)
(***************************************************************************)
Classify ==
    /\ pc = "classify"
    /\ calls' = Count(calls, "classify")
    /\ \/ \E text \in Replies :
            /\ reply' = text
            /\ request_type' = ClassifyReply(text)
            /\ Goto("route")
            /\ UNCHANGED faults
       \/ /\ reply' = NoReply
          /\ Fault("classify_call")
          /\ IF "classify" \in TrySites
             THEN /\ request_type' = ClassifyOnError
                  /\ Goto("route")
             ELSE /\ Raise
                  /\ UNCHANGED request_type
    /\ UNCHANGED << fixedVars, user_input, loopVars, meshVars >>

\* a test that sends everything but FUNCTIONAL to the organic branch
IsOrganic_NotFunctional(rt) == rt # FUNCTIONAL

\* if request_type == RequestType.ORGANIC
IsOrganic(rt) == rt = ORGANIC

(***************************************************************************)
(* process_request, request_type == RequestType.ORGANIC: store_ai returns  *)
(* a refusal, unified_app calls OrganicMeshGenerator.generate.             *)
(***************************************************************************)
RouteOrganic ==
    /\ pc = "route"
    /\ IsOrganic(request_type)
    /\ reply' = NoReply
    /\ IF rev = "store_ai"
       THEN /\ Return(StoreOrganicResult)
            /\ UNCHANGED calls
       ELSE /\ Goto("enhance")
            /\ calls' = Count(calls, "mesh")
    /\ UNCHANGED << fixedVars, user_input, request_type, loopVars, meshVars,
                    faults >>

\* _check_fallbacks of the revision that runs
Template(text) ==
    IF rev = "store_ai" THEN StoreTemplate(text) ELSE UnifiedTemplate(text)

FallbackResult(t) ==
    IF rev = "store_ai" THEN StoreFallbackResult(t) ELSE UnifiedFallbackResult(t)

(***************************************************************************)
(* process_request, any other request_type: _check_fallbacks, and the      *)
(* call of generate when no template matches.                              *)
(***************************************************************************)
CheckFallbacks ==
    /\ pc = "route"
    /\ ~IsOrganic(request_type)
    /\ reply' = NoReply
    /\ calls' = Count(calls, "fallbacks")
    /\ IF Template(user_input) # NoTemplate
       THEN /\ Return(FallbackResult(Template(user_input)))
            /\ UNCHANGED attempt
       ELSE /\ Goto("generate")
            /\ attempt' = 1
    /\ UNCHANGED << fixedVars, user_input, request_type, scad_code, error_msg,
                    temp_scad, last_run, fails, meshVars, faults >>

\* the triple generate returns for the request, as process_request packs it
Packed(t) ==
    IF rev = "store_ai" THEN StoreGenerateResult(t, request_type)
    ELSE UnifiedGenerateResult(t)

(***************************************************************************)
(* The prompts of the two model calls of the generator (store_ai.py): what *)
(* each is built from.                                                     *)
(***************************************************************************)
\* messages = [{"role": "user", "content": f"Create this 3D model: ..."}]
GenerationPrompt(user_request) ==
    [ kind |-> "generation", request |-> user_request ]

\* correction_prompt = f"""The OpenSCAD code you generated has a ..."""
CorrectionPrompt(user_request, failed_code, error, error_category) ==
    [ kind |-> "correction", request |-> user_request,
      failed_code |-> failed_code, error_msg |-> error,
      category |-> error_category ]

\* the prompt of the model call that generate or _self_correct makes next
NextPrompt ==
    IF pc = "self_correct"
    THEN CorrectionPrompt(user_input, scad_code, error_msg,
                          categorize_error(error_msg))
    ELSE GenerationPrompt(user_input)

\* a generator that gives up on an error it cannot name
CorrectionFollows_KnownOnly(error_category) == error_category # UNKNOWN_ERROR

\* generate, compile failed: _self_correct is called whatever the category
CorrectionFollows(error_category) == TRUE

(***************************************************************************)
(* ModelGenerator.generate: the attempt check (store_ai) and the           *)
(* generation call of the language model.  unified_app returns the         *)
(* candidate as it is.                                                     *)
(***************************************************************************)
Generate ==
    /\ pc = "generate"
    /\ IF rev = "store_ai" /\ AttemptsExhausted(attempt)
       THEN /\ Return(Packed(CapReached))
            /\ Fault("attempt_cap")
            /\ UNCHANGED << scad_code, calls >>
       ELSE /\ calls' = Count(calls, "generate")
            /\ \/ \E c \in LLMCodes :
                    /\ scad_code' = c
                    /\ IF rev = "store_ai"
                       THEN Goto("compile_gen")
                       ELSE Return(Packed(UnifiedGeneratedOk(c)))
                    /\ UNCHANGED faults
               \/ /\ UNCHANGED scad_code
                  /\ Fault("generate_call")
                  /\ IF "generate" \in TrySites
                     THEN Return(Packed(IF rev = "store_ai" THEN GenerationError
                                        ELSE UnifiedGenerationError))
                     ELSE Raise
    /\ UNCHANGED << fixedVars, user_input, reply, request_type, attempt,
                    error_msg, temp_scad, last_run, fails, meshVars >>

\* compile's outcomes that are exceptions inside compile
CompileExceptions == { "timeout", "not_found", "write_failed", "os_error" }

\* an exception of the compiler that compile itself does not catch reaches
\* the try block of the caller
CompileEscapes(outcome) ==
    /\ outcome \in CompileExceptions
    /\ "compile" \notin TrySites

(***************************************************************************)
(* generate, after the generation call: the candidate is compiled.         *)
(***************************************************************************)
CompileGenerated ==
    /\ pc = "compile_gen"
    /\ calls' = Count(calls, "compile")
    /\ \E outcome \in CompileOutcomes :
        /\ temp_scad' = TempFileAfter(temp_scad, scad_code, outcome)
        /\ last_run' = CompileCall(scad_code, outcome)
        /\ IF CompileEscapes(outcome)
           THEN /\ IF "generate" \in TrySites
                   THEN Return(Packed(GenerationError))
                   ELSE Raise
                /\ Fault("compile")
                /\ UNCHANGED << error_msg, fails >>
           ELSE IF CompileSuccess(outcome)
           THEN /\ Return(Packed(GeneratedOk(scad_code)))
                /\ UNCHANGED << error_msg, fails, faults >>
           ELSE /\ error_msg' = CompileMessage(outcome, scad_code)
                /\ fails' = fails + 1
                /\ Fault("compile")
                /\ IF CorrectionFollows(
                          categorize_error(CompileMessage(outcome, scad_code)))
                   THEN Goto("self_correct")
                   ELSE Return(Packed(GenerationError))
    /\ UNCHANGED << fixedVars, user_input, reply, request_type, attempt,
                    scad_code, meshVars >>

(***************************************************************************)
(* _self_correct: the correction call of the language model.               *)
(***************************************************************************)
SelfCorrect ==
    /\ pc = "self_correct"
    /\ calls' = Count(calls, "correct")
    /\ \/ \E c \in LLMCodes :
            /\ scad_code' = c
            /\ Goto("compile_corr")
            /\ UNCHANGED faults
       \/ /\ UNCHANGED scad_code
          /\ Fault("correct_call")
          /\ IF "self_correct" \in TrySites
             THEN Return(Packed(CorrectionError))
             ELSE IF "generate" \in TrySites
             THEN Return(Packed(GenerationError))
             ELSE Raise
    /\ UNCHANGED << fixedVars, user_input, reply, request_type, attempt,
                    error_msg, temp_scad, last_run, fails, meshVars >>

(***************************************************************************)
(* _self_correct, after the correction call: the corrected candidate is    *)
(* compiled; on failure generate is called with attempt + 1.               *)
(***************************************************************************)
CompileCorrected ==
    /\ pc = "compile_corr"
    /\ calls' = Count(calls, "compile")
    /\ \E outcome \in CompileOutcomes :
        /\ temp_scad' = TempFileAfter(temp_scad, scad_code, outcome)
        /\ last_run' = CompileCall(scad_code, outcome)
        /\ IF CompileEscapes(outcome)
           THEN /\ IF "self_correct" \in TrySites
                   THEN Return(Packed(CorrectionError))
                   ELSE IF "generate" \in TrySites
                   THEN Return(Packed(GenerationError))
                   ELSE Raise
                /\ Fault("compile")
                /\ UNCHANGED << attempt, fails >>
           ELSE IF CompileSuccess(outcome)
           THEN /\ Return(Packed(CorrectedOk(scad_code, attempt)))
                /\ UNCHANGED << attempt, fails, faults >>
           ELSE /\ fails' = fails + 1
                /\ attempt' = NextAttempt(attempt)
                /\ Fault("compile")
                /\ Goto("generate")
    /\ UNCHANGED << fixedVars, user_input, reply, request_type, scad_code,
                    error_msg, meshVars >>

(***************************************************************************)
(* OrganicMeshGenerator.generate: the prompt is enhanced when it is short, *)
(* and the key is checked.                                                 *)
(***************************************************************************)
\* a generator that goes on to the provider without a key
KeyMissing_Never == FALSE

\* if not self.meshy_key:
KeyMissing == ~meshy_key

Enhance ==
    /\ pc = "enhance"
    /\ \/ /\ ~NeedsEnhancing(user_input)
          /\ prompt' = "user_request"
          /\ UNCHANGED calls
          /\ faults' = faults \cup (IF KeyMissing THEN { "no_key" } ELSE { })
       \/ /\ NeedsEnhancing(user_input)
          /\ calls' = Count(calls, "enhance")
          /\ \/ /\ prompt' = "enhanced by the model"
                /\ faults' = faults \cup (IF KeyMissing THEN { "no_key" } ELSE { })
             \/ /\ prompt' = "user_request detailed 3D printable"
                /\ faults' = faults \cup { "enhance_call" }
                               \cup (IF KeyMissing THEN { "no_key" } ELSE { })
    /\ IF KeyMissing
       THEN Return(MarkMesh(NoKeyResult))
       ELSE Goto("submit")
    /\ UNCHANGED << fixedVars, user_input, reply, request_type, loopVars, polls,
                    status_data >>

\* what the except clause of _generate_with_meshy does with an exception
MeshyRaised ==
    IF "meshy" \in TrySites
    THEN Return(MarkMesh(MeshError))
    ELSE Raise

(***************************************************************************)
(* _generate_with_meshy: the job is submitted.                             *)
(***************************************************************************)
SubmitJob ==
    /\ pc = "submit"
    /\ calls' = Count(calls, "submit")
    /\ polls' = 0
    /\ \E o \in SubmitOutcomes :
        IF o.kind = "raise" THEN MeshyRaised /\ Fault("submit_transport")
        ELSE IF ~Accepted(o.status_code)
        THEN Return(MarkMesh(ApiError(o.status_code))) /\ Fault("submit_rejected")
        ELSE IF o.body = "not_json" THEN MeshyRaised /\ Fault("submit_not_json")
        ELSE IF ~HasTaskId(o.body)
        THEN Return(MarkMesh(NoTaskId)) /\ Fault("no_task_id")
        ELSE Goto("poll") /\ UNCHANGED faults
    /\ UNCHANGED << fixedVars, user_input, reply, request_type, loopVars, prompt,
                    status_data >>

(***************************************************************************)
(* _generate_with_meshy: one round of the polling loop.                    *)
(***************************************************************************)
PollStatus ==
    /\ pc = "poll"
    /\ MorePolls(polls)
    /\ polls' = polls + 1
    /\ calls' = Count(calls, "poll")
    /\ \E o \in PollOutcomes :
        /\ status_data' = o
        /\ IF o.kind = "raise" THEN MeshyRaised /\ Fault("poll_transport")
           ELSE IF Succeeded(o.status)
           THEN IF o.glb
                THEN Goto("fetch") /\ UNCHANGED faults
                ELSE Return(MarkMesh(NoModelFile)) /\ Fault("no_model_file")
           ELSE IF Failed(o.status)
           THEN Return(MarkMesh(MeshyFailed(o.error))) /\ Fault("job_failed")
           ELSE Goto("poll") /\ UNCHANGED faults
    /\ UNCHANGED << fixedVars, user_input, reply, request_type, loopVars, prompt >>

\* the loop ends without a terminal status
PollTimeout ==
    /\ pc = "poll"
    /\ ~MorePolls(polls)
    /\ Return(MarkMesh(MeshTimeout))
    /\ Fault("poll_timeout")
    /\ UNCHANGED << fixedVars, user_input, reply, request_type, loopVars,
                    meshVars, calls >>

(***************************************************************************)
(* _generate_with_meshy: the GLB file is fetched from model_urls.glb.      *)
(***************************************************************************)
FetchAsset ==
    /\ pc = "fetch"
    /\ calls' = Count(calls, "fetch")
    /\ \/ /\ \E bytes \in AssetBytes : Return(MarkMesh(MeshSuccess(bytes)))
          /\ UNCHANGED faults
       \/ MeshyRaised /\ Fault("fetch_transport")
    /\ UNCHANGED << fixedVars, user_input, reply, request_type, loopVars,
                    meshVars >>

Next ==
    \/ ProcessRequest
    \/ Classify
    \/ RouteOrganic
    \/ CheckFallbacks
    \/ Generate
    \/ CompileGenerated
    \/ SelfCorrect
    \/ CompileCorrected
    \/ Enhance
    \/ SubmitJob
    \/ PollStatus
    \/ PollTimeout
    \/ FetchAsset

Spec == Init /\ [][Next]_vars

(***************************************************************************)
(* The agent serves one request after another: process_request has         *)
(* returned or raised, and its next call starts with none of the locals of *)
(* the last one.  RequestClassifier, ModelGenerator and FallbackPatterns   *)
(* keep no field but the client; the file /tmp/temp_model.scad stays.      *)
(***************************************************************************)
\* an agent that keeps the last classification for the next request
NextRequest_Cached ==
    /\ pc = "done"
    /\ \E text \in Requests : user_input' = text
    /\ pc' = "route"
    /\ result' = NoResult
    /\ raised' = FALSE
    /\ calls' = NoCalls
    /\ faults' = { }
    /\ UNCHANGED << fixedVars, reply, request_type, loopVars, meshVars >>

NextRequest ==
    /\ pc = "done"
    /\ pc' = "idle"
    /\ user_input' = << >>
    /\ reply' = NoReply
    /\ request_type' = UNKNOWN
    /\ attempt' = 0
    /\ scad_code' = EmptyCode
    /\ error_msg' = << >>
    /\ last_run' = NoRun
    /\ fails' = 0
    /\ prompt' = ""
    /\ polls' = 0
    /\ status_data' = NoStatus
    /\ result' = NoResult
    /\ raised' = FALSE
    /\ calls' = NoCalls
    /\ faults' = { }
    /\ UNCHANGED << fixedVars, temp_scad >>

ServiceNext ==
    \/ Next
    \/ NextRequest

ServiceSpec == Init /\ [][ServiceNext]_vars

(***************************************************************************)
(* Two processes run ModelGenerator.generate (store_ai.py) at the same     *)
(* time on one machine.  Each has its own attempt number and candidate;    *)
(* OpenSCADCompiler.compile writes the candidate to the fixed path         *)
(* /tmp/temp_model.scad and then starts openscad on that path, so the      *)
(* write and the run of one process are two steps between which the other  *)
(* process may write.  A job records, as run, the source it handed to      *)
(* compile and the source openscad read from the file.                     *)
(***************************************************************************)
Processes == { 1, 2 }

NotRun == [ src |-> EmptyCode, read |-> EmptyCode ]

\* generator.generate(user_input) is entered: attempt=1
JobStart ==
    [ pc |-> "generate", attempt |-> 1, scad_code |-> EmptyCode,
      run |-> NotRun, success |-> FALSE ]

RaceInit ==
    /\ rev = "store_ai"
    /\ meshy_key = FALSE
    /\ triposr_key = FALSE
    /\ AgentIdle
    /\ PreviewIdle
    /\ SessionIdle
    /\ jobs = [ j \in Processes |-> JobStart ]

\* the job j goes on as the record job
JobBecomes(j, job) == jobs' = [ jobs EXCEPT ![j] = job ]

\* what all steps of a job leave alone
jobFixed ==
    << rev, meshy_key, triposr_key, previewVars, sessionVars, pc, user_input,
       reply, request_type, attempt, scad_code, error_msg, last_run, fails,
       meshVars, result, raised, calls, faults >>

\* generate: the attempt check and the generation call
JobGenerate(j) ==
    /\ jobs[j].pc = "generate"
    /\ IF AttemptsExhausted(jobs[j].attempt)
       THEN JobBecomes(j, [ jobs[j] EXCEPT !.pc = "done" ])
       ELSE \/ \E c \in LLMCodes :
                 JobBecomes(j, [ jobs[j] EXCEPT !.pc = "write_gen",
                                                !.scad_code = c ])
            \/ JobBecomes(j, [ jobs[j] EXCEPT !.pc = "done" ])
    /\ UNCHANGED << jobFixed, temp_scad >>

\* compile: with open(temp_scad, 'w') as f: f.write(code); a failed write
\* makes compile return (False, ...)
JobWrite(j) ==
    /\ jobs[j].pc \in { "write_gen", "write_corr" }
    /\ \/ /\ temp_scad' = jobs[j].scad_code
          /\ JobBecomes(j, [ jobs[j] EXCEPT
                 !.pc = IF @ = "write_gen" THEN "run_gen" ELSE "run_corr" ])
       \/ /\ UNCHANGED temp_scad
          /\ JobBecomes(j,
                 IF jobs[j].pc = "write_gen"
                 THEN [ jobs[j] EXCEPT !.pc = "self_correct" ]
                 ELSE [ jobs[j] EXCEPT !.pc = "generate",
                                       !.attempt = NextAttempt(@) ])
    /\ UNCHANGED jobFixed

\* compile: subprocess.run([openscad, "-o", output_path, temp_scad]);
\* openscad reads what the file holds now
JobRun(j) ==
    /\ jobs[j].pc \in { "run_gen", "run_corr" }
    /\ \E passed \in BOOLEAN :
         JobBecomes(j,
            IF passed
            THEN [ jobs[j] EXCEPT
                     !.pc = "done", !.success = TRUE,
                     !.run = [ src |-> jobs[j].scad_code, read |-> temp_scad ] ]
            ELSE IF jobs[j].pc = "run_gen"
            THEN [ jobs[j] EXCEPT
                     !.pc = "self_correct",
                     !.run = [ src |-> jobs[j].scad_code, read |-> temp_scad ] ]
            ELSE [ jobs[j] EXCEPT
                     !.pc = "generate", !.attempt = NextAttempt(@),
                     !.run = [ src |-> jobs[j].scad_code, read |-> temp_scad ] ])
    /\ UNCHANGED << jobFixed, temp_scad >>

\* _self_correct: the correction call
JobCorrect(j) ==
    /\ jobs[j].pc = "self_correct"
    /\ \/ \E c \in LLMCodes :
            JobBecomes(j, [ jobs[j] EXCEPT !.pc = "write_corr",
                                            !.scad_code = c ])
       \/ JobBecomes(j, [ jobs[j] EXCEPT !.pc = "done" ])
    /\ UNCHANGED << jobFixed, temp_scad >>

RaceNext ==
    \E j \in Processes :
        \/ JobGenerate(j)
        \/ JobWrite(j)
        \/ JobRun(j)
        \/ JobCorrect(j)

RaceSpec == RaceInit /\ [][RaceNext]_vars

(***************************************************************************)
(* parse_openscad_to_threejs is called on a source text, as                *)
(* generate_threejs_html does for the preview.                             *)
(***************************************************************************)
agentVars ==
    << rev, meshy_key, triposr_key, pc, user_input, reply, request_type,
       loopVars, meshVars, result, raised, calls, faults, jobs >>

PreviewInit ==
    /\ rev = "unified_app"
    /\ meshy_key = FALSE
    /\ triposr_key = FALSE
    /\ AgentIdle
    /\ SessionIdle
    /\ jobs = NoJobs
    /\ scad_source \in Sources
    /\ parse_pc = "call"
    /\ objects = << >>
    /\ parse_raised = FALSE

\* objects = parse_openscad_to_threejs(scad_code)
ParseSource ==
    /\ parse_pc = "call"
    /\ \E w \in { ParseOpenscad(scad_source) } :
           /\ objects' = w.objects
           /\ parse_raised' = w.raised
    /\ parse_pc' = "returned"
    /\ UNCHANGED << agentVars, sessionVars, scad_source >>

PreviewNext == ParseSource

PreviewSpec == PreviewInit /\ [][PreviewNext]_vars

(***************************************************************************)
(* render_3d_generator (unified_app.py): the generator page.  Streamlit    *)
(* runs the script once for every submission of the form; a run is one     *)
(* step.  The page keeps its history in the session state.                 *)
(***************************************************************************)
\* the entries the history may hold in the model
MaxHistory == 3

\* the texts of the text area: nothing, a blank, a template request, an
\* organic request
SessionInputs == { << >>, << " " >>, kw_box, << "b","e","a","r" >> }

\* the records agent.process_request(text) may return
SessionResults(text) ==
    (IF meshy_key
     THEN { MarkMesh(MeshSuccess(b)) : b \in AssetBytes } \cup { MarkMesh(MeshTimeout) }
     ELSE { MarkMesh(NoKeyResult) })
    \cup
    (IF UnifiedTemplate(text) # NoTemplate
     THEN { UnifiedFallbackResult(UnifiedTemplate(text)) }
     ELSE { UnifiedGenerateResult(UnifiedGeneratedOk(c)) : c \in LLMCodes }
          \cup { UnifiedGenerateResult(UnifiedGenerationError) })

\* a history that takes the new entry at its head
Appended_First(entries, item) == << item >> \o entries

\* st.session_state['3d_history'].append({"request": ..., "result": ...})
Appended(entries, item) == Append(entries, item)

\* if submit and user_input:
Submitted(submit, text) == submit /\ text # << >>

SessionInit ==
    /\ rev = "unified_app"
    /\ meshy_key \in BOOLEAN
    /\ triposr_key = FALSE
    /\ AgentIdle
    /\ PreviewIdle
    /\ jobs = NoJobs
    /\ anthropic_api_key \in BOOLEAN
    /\ history = << >>
    /\ click = NoClick

\* a run of the script after Generate was pressed: the request is
\* processed and the entry appended, unless the text is empty or an
\* exception reached the except clause
GenerateClicked ==
    /\ anthropic_api_key
    /\ \E text \in SessionInputs :
         IF ~Submitted(TRUE, text)
         THEN /\ click' = [ button |-> "generate", user_input |-> text,
                            processed |-> FALSE ]
              /\ UNCHANGED history
         ELSE \/ /\ click' = [ button |-> "generate", user_input |-> text,
                               processed |-> TRUE, raised |-> TRUE ]
                 /\ UNCHANGED history
              \/ \E r \in SessionResults(text) :
                   /\ Len(history) < MaxHistory
                   /\ click' = [ button |-> "generate", user_input |-> text,
                                 processed |-> TRUE, raised |-> FALSE,
                                 result |-> r ]
                   /\ history' = Appended(history, [ request |-> text, result |-> r ])
    /\ UNCHANGED << agentVars, previewVars, anthropic_api_key >>

\* a run of the script after Clear was pressed
ClearClicked ==
    /\ anthropic_api_key
    /\ history' = << >>
    /\ click' = [ button |-> "clear" ]
    /\ UNCHANGED << agentVars, previewVars, anthropic_api_key >>

SessionNext == GenerateClicked \/ ClearClicked

SessionSpec == SessionInit /\ [][SessionNext]_vars

(***************************************************************************)
(* Properties.                                                             *)
(***************************************************************************)
Done == pc = "done"
Returned == Done /\ ~raised
InLoop == pc \in { "generate", "compile_gen", "self_correct", "compile_corr" }

\* C1, safety: generate makes at most MAX_CORRECTION_ATTEMPTS generation
\* calls for a request, and the k-th generation call is the one made with
\* attempt = k: before it the counter stands one above the calls made,
\* after it the two agree.
C1_GenerationCallsBounded ==
    /\ calls["generate"] <= MAX_CORRECTION_ATTEMPTS
    /\ pc = "generate" => attempt = calls["generate"] + 1
    /\ pc \in { "compile_gen", "self_correct", "compile_corr" } =>
           attempt = calls["generate"]

\* C1, the step: a generation call is made with an attempt number one above
\* that of the generation call before it.
C1_AttemptIncreases ==
    calls'["generate"] > calls["generate"] =>
        /\ calls'["generate"] = calls["generate"] + 1
        /\ attempt' = calls'["generate"]

\* C1, termination: the steps left to a call of generate.  Each attempt has
\* four steps (generation call, compile, correction call, compile) and the
\* attempt number never passes MAX_CORRECTION_ATTEMPTS + 1.
C1_StepsLeft ==
    4 * (MAX_CORRECTION_ATTEMPTS + 1 - attempt)
      + (CASE pc = "generate"     -> 3
           [] pc = "compile_gen"  -> 2
           [] pc = "self_correct" -> 1
           [] pc = "compile_corr" -> 0)

\* C1, termination: a step of the loop returns or leaves fewer steps.
C1_LoopAdvances ==
    InLoop => \/ Returned'
              \/ InLoop' /\ C1_StepsLeft' < C1_StepsLeft

\* C1: whatever the compiler answers on each run, one call of generate
\* makes at most MAX_CORRECTION_ATTEMPTS (5) generation calls, the attempt
\* number grows from each generation call to the next, and the call ends
\* with a result: inside the loop a step can always be taken, and every
\* step returns or brings the loop closer to its end (no unbounded
\* recursion).
C1_GenerateBoundedAndTerminates ==
    /\ [] C1_GenerationCallsBounded
    /\ [] (InLoop => attempt <= MAX_CORRECTION_ATTEMPTS + 1 /\ ENABLED Next)
    /\ [][C1_AttemptIncreases /\ C1_LoopAdvances]_vars

\* C1 witness: the loop ran to its cap, five generation calls were made and
\* generate returned.
C1_Witness ==
    /\ Returned
    /\ rev = "store_ai"
    /\ calls["generate"] = MAX_CORRECTION_ATTEMPTS
    /\ calls["compile"] = 2 * MAX_CORRECTION_ATTEMPTS
    /\ result.message = FailedAfterMessage

\* ------------------------------------------------------------------ C2
\* C2: when the candidates have failed to compile 5 times in a row,
\* generate has ended with the failed result that reports the attempt cap,
\* and 5 language-model calls were spent on the correction rounds (read
\* either as 5 correction calls or as 5 calls in all).
C2_FiveFailuresReachTheCap ==
    (rev = "store_ai" /\ fails >= MAX_CORRECTION_ATTEMPTS) =>
        /\ Returned
        /\ ~result.success
        /\ result.message = FailedAfterMessage
        /\ \/ calls["correct"] = MAX_CORRECTION_ATTEMPTS
           \/ calls["generate"] + calls["correct"] = MAX_CORRECTION_ATTEMPTS

\* ------------------------------------------------------------------ C3
\* C3: generate returns success only if the compiler was run on exactly the
\* source it returns, as the last compile, and exited with code 0.
C3_SuccessOnlyAfterCleanCompile ==
    (Returned /\ calls["generate"] >= 1 /\ result.success) =>
        last_run = CompileCall(result.scad_code, "exit0")

\* ------------------------------------------------------------------ C4
Routed == pc \notin { "idle", "classify", "route" }

\* C4 as claimed, for both revisions: the Mesh Generator is invoked if and
\* only if the classification is ORGANIC; templates and the DSL generator
\* are used only for other classifications, the DSL generator only when no
\* template matches.
C4_MeshIffOrganic ==
    Routed =>
        /\ calls["mesh"] >= 1 <=> request_type = ORGANIC
        /\ calls["fallbacks"] >= 1 => request_type # ORGANIC
        /\ calls["generate"] >= 1 =>
               request_type # ORGANIC /\ Template(user_input) = NoTemplate

\* C4 amended: unified_app invokes the Mesh Generator if and only if the
\* classification is ORGANIC; store_ai has no Mesh Generator and answers
\* ORGANIC with a failed "organic" record at once.  In both revisions the
\* templates are consulted exactly for the other classifications, a match
\* is returned at once with no generation call and no compile, the DSL
\* generator is entered exactly when the classification is not ORGANIC and
\* no template matches, and UNKNOWN takes the road of FUNCTIONAL.
C4_RoutesByClassification ==
    Routed =>
        /\ rev = "unified_app" => (calls["mesh"] = 1 <=> request_type = ORGANIC)
        /\ rev = "store_ai" =>
              /\ calls["mesh"] = 0
              /\ request_type = ORGANIC =>
                     Returned /\ ~result.success /\ result.request_type = "organic"
        /\ request_type = ORGANIC =>
              calls["fallbacks"] = 0 /\ calls["generate"] = 0
        /\ request_type \in { FUNCTIONAL, UNKNOWN } =>
              /\ calls["mesh"] = 0
              /\ calls["fallbacks"] = 1
              /\ IF Template(user_input) # NoTemplate
                 THEN /\ Returned
                      /\ result.fallback_used
                      /\ result.scad_code = TemplateCode(Template(user_input))
                      /\ calls["generate"] = 0
                      /\ calls["compile"] = 0
                 ELSE \/ pc = "generate" /\ attempt = 1
                      \/ calls["generate"] >= 1

\* C4 witness: an UNKNOWN request without a template keyword went through
\* the template check and was answered by the DSL generator.
C4_Witness ==
    /\ Returned
    /\ request_type = UNKNOWN
    /\ calls["fallbacks"] = 1
    /\ calls["generate"] = 1
    /\ result.success

\* ------------------------------------------------------------------ C5
\* the failures that end a request
FatalFaults ==
    { "generate_call", "correct_call", "attempt_cap", "no_key",
      "submit_transport", "submit_rejected", "submit_not_json", "no_task_id",
      "poll_transport", "job_failed", "no_model_file", "poll_timeout",
      "fetch_transport" }

\* C5 as claimed: process_request never raises, and every component
\* failure it meets yields success=false with a message.
C5_EveryFailureFailsTheRequest ==
    Done =>
        /\ ~raised
        /\ faults # { } => ~result.success /\ result.message # ""

\* C5 amended: process_request never raises and always returns a record
\* with success and message; a failed generation or correction call, the
\* attempt cap, a missing mesh key and a failed mesh submission, poll, job
\* or download yield success=false with a message.  A failed classification
\* or prompt-enhancement call and a compile failure that a later round
\* repairs are absorbed.
C5_NeverRaisesFatalFailuresReported ==
    Done =>
        /\ ~raised
        /\ { "success", "message" } \subseteq DOMAIN result
        /\ result.success \in BOOLEAN
        /\ result.message # ""
        /\ faults \cap FatalFaults # { } => ~result.success
        /\ ~result.success /\ "scad_code" \in DOMAIN result =>
               result.scad_code = EmptyCode

\* C5 witness: the classification call and, later, a correction call failed
\* and a failed record came back.
C5_Witness ==
    /\ Returned
    /\ { "classify_call", "compile", "correct_call" } \subseteq faults
    /\ ~result.success

\* ------------------------------------------------------------------ C6
Terminal(st) == st \in { "SUCCEEDED", "FAILED" }

\* C6: at most 40 status requests are made for a job, and when all 40 were
\* answered with a status other than SUCCEEDED and FAILED the request ends
\* with success=false, a timeout message and no artifact bytes.
C6_PollingBoundedThenTimeout ==
    /\ calls["poll"] <= POLL_ITERATIONS
    /\ polls = calls["poll"]
    /\ ( /\ Done
         /\ calls["poll"] = POLL_ITERATIONS
         /\ status_data.kind = "response"
         /\ ~Terminal(status_data.status) ) =>
            /\ ~raised
            /\ ~result.success
            /\ result.message = "Timeout"
            /\ result.stl_data = NoBytes

\* C6 witness: a job that stayed IN_PROGRESS through the 40th status
\* request, and the request has ended.
C6_Witness ==
    /\ Returned
    /\ calls["poll"] = POLL_ITERATIONS
    /\ status_data.status = "IN_PROGRESS"
    /\ result.message = "Timeout"

\* ------------------------------------------------------------------ C7
\* C7, states: polling goes on only while no terminal status was seen; a
\* SUCCEEDED answer with a model URL whose download succeeds gives success
\* with the downloaded bytes; a FAILED answer gives success=false with the
\* provider's error text.
C7_TerminalStatusOutcome ==
    /\ pc = "poll" => ~Terminal(status_data.status)
    /\ pc = "fetch" => status_data.status = "SUCCEEDED" /\ status_data.glb
    /\ ( /\ Done
         /\ status_data.status = "SUCCEEDED"
         /\ status_data.glb
         /\ "fetch_transport" \notin faults ) =>
            /\ Returned
            /\ result.success
            /\ result.stl_data \in AssetBytes
            /\ calls["fetch"] = 1
    /\ (Done /\ status_data.status = "FAILED") =>
            /\ Returned
            /\ ~result.success
            /\ result.stl_data = NoBytes
            /\ calls["fetch"] = 0
            /\ result.message =
                 (IF status_data.error = "" THEN "Meshy failed: Unknown error"
                  ELSE "Meshy failed: task_error: quota exceeded")

\* C7, steps: once a terminal status was observed no status request is
\* made any more.
C7_NoPollAfterTerminal ==
    Terminal(status_data.status) => calls'["poll"] = calls["poll"]

OccursAtCI(s, kw, i) ==
    /\ i + Len(kw) <= Len(s)
    /\ \A j \in 1..Len(kw) : LowerChar(s[i + j]) = LowerChar(kw[j])
ContainsCI(s, kw) == \E i \in 0..Len(s) : OccursAtCI(s, kw, i)
FirstCI(s, kw) ==
    CHOOSE i \in 0..Len(s) :
        /\ OccursAtCI(s, kw, i)
        /\ \A k \in 0..(i - 1) : ~OccursAtCI(s, kw, k)

\* C8 as claimed: classify returns the type of the keyword that appears
\* first in the reply, UNKNOWN when neither appears.
C8_FirstKeywordInReplyWins ==
    (pc = "route" /\ reply # NoReply) =>
        request_type =
            (IF ContainsCI(reply, KW_FUNCTIONAL) /\ ContainsCI(reply, KW_ORGANIC)
             THEN IF FirstCI(reply, KW_FUNCTIONAL) < FirstCI(reply, KW_ORGANIC)
                  THEN FUNCTIONAL ELSE ORGANIC
             ELSE IF ContainsCI(reply, KW_FUNCTIONAL) THEN FUNCTIONAL
             ELSE IF ContainsCI(reply, KW_ORGANIC) THEN ORGANIC
             ELSE UNKNOWN)

\* C8 amended: classify returns FUNCTIONAL when the reply contains
\* "FUNCTIONAL" in any letter case, wherever it stands; otherwise ORGANIC
\* when it contains "ORGANIC"; otherwise UNKNOWN.
C8_FunctionalBeforeOrganic ==
    (pc = "route" /\ reply # NoReply) =>
        request_type =
            (IF ContainsCI(reply, KW_FUNCTIONAL) THEN FUNCTIONAL
             ELSE IF ContainsCI(reply, KW_ORGANIC) THEN ORGANIC
             ELSE UNKNOWN)

\* C8 witness: a reply that names ORGANIC first and FUNCTIONAL after it, in
\* mixed case, was classified FUNCTIONAL.
C8_Witness ==
    /\ pc = "route"
    /\ reply # NoReply
    /\ ContainsCI(reply, KW_FUNCTIONAL)
    /\ ContainsCI(reply, KW_ORGANIC)
    /\ FirstCI(reply, KW_ORGANIC) < FirstCI(reply, KW_FUNCTIONAL)
    /\ ~Contains(reply, KW_ORGANIC)
    /\ request_type = FUNCTIONAL

\* ------------------------------------------------------------------ C9
\* C9: when the classification call fails, exactly one classification call
\* was made, classify returned UNKNOWN without raising, and the request
\* takes the road of a FUNCTIONAL one: the template check, and the DSL
\* generator when no template matches; the Mesh Generator is not used.
C9_FailedClassificationIsUnknown ==
    "classify_call" \in faults =>
        /\ calls["classify"] = 1
        /\ ~raised
        /\ request_type = UNKNOWN
        /\ calls["mesh"] = 0
        /\ pc # "classify"
        /\ Routed =>
              /\ calls["fallbacks"] = 1
              /\ IF Template(user_input) # NoTemplate
                 THEN /\ Returned
                      /\ result = FallbackResult(Template(user_input))
                      /\ calls["generate"] = 0
                 ELSE \/ pc = "generate" /\ attempt = 1
                      \/ calls["generate"] >= 1

\* C9 witness: the classification call failed, no template matched and the
\* DSL generator answered the request.
C9_Witness ==
    /\ "classify_call" \in faults
    /\ Returned
    /\ calls["classify"] = 1
    /\ calls["generate"] >= 1
    /\ result.success

\* ------------------------------------------------------------------ C10
\* the template family the claim assigns to a request: "funnel", then
\* "bracket", then "box" / "container" / "case", on the lower-cased text
ClaimedFamily(text) ==
    LET lower == Lower(text)
    IN  IF Contains(lower, kw_funnel) THEN "funnel"
        ELSE IF Contains(lower, kw_bracket) THEN "bracket"
        ELSE IF \E w \in { kw_box, kw_container, kw_case } : Contains(lower, w)
             THEN "box"
        ELSE NoTemplate

\* the template family process_request answered with
ReturnedFamily ==
    IF Returned /\ calls["generate"] = 0 /\ result.success
    THEN CASE result.scad_code = TemplateCode("funnel")  -> "funnel"
           [] result.scad_code = TemplateCode("bracket") -> "bracket"
           [] result.scad_code \in { TemplateCode("box"), TemplateCode("box_lid") }
                                                         -> "box"
    ELSE NoTemplate

\* C10: a request gets the template of the first keyword, in the order
\* funnel, bracket, box/container/case, that its lower-cased text contains,
\* and no template when it contains none.
C10_TemplateByKeywordOrder ==
    calls["fallbacks"] = 1 => ReturnedFamily = ClaimedFamily(user_input)

\* ------------------------------------------------------------------ C11
\* C11 as claimed: every request containing "funnel" is answered with the
\* funnel template as a successful DSL result, after one classification
\* call and without any generation or correction call.
C11_FunnelAlwaysTemplate ==
    (Done /\ ContainsCI(user_input, kw_funnel)) =>
        /\ Returned
        /\ result.success
        /\ result.scad_code = TemplateCode("funnel")
        /\ calls["classify"] = 1
        /\ calls["generate"] = 0
        /\ calls["correct"] = 0

\* C11 amended: a request containing "funnel" in any letter case, whose
\* classification is not ORGANIC (FUNCTIONAL, UNKNOWN, or a failed
\* classification call), is answered with the funnel template as a
\* successful DSL result; exactly one classification call is made and no
\* generation call, correction call or compile.  Classified ORGANIC, the
\* same request gets no template.
C11_FunnelTemplateUnlessOrganic ==
    (Routed /\ ContainsCI(user_input, kw_funnel)) =>
        /\ calls["classify"] = 1
        /\ calls["generate"] = 0
        /\ calls["correct"] = 0
        /\ calls["compile"] = 0
        /\ IF request_type # ORGANIC
           THEN /\ Returned
                /\ result.success
                /\ result.fallback_used
                /\ result.scad_code = TemplateCode("funnel")
                /\ calls["mesh"] = 0
           ELSE /\ calls["fallbacks"] = 0
                /\ Returned /\ "scad_code" \in DOMAIN result =>
                       result.scad_code = EmptyCode

\* C11 witness: "Funnel", typed with a capital, classified FUNCTIONAL, came
\* back as the funnel template.
C11_Witness ==
    /\ Returned
    /\ ContainsCI(user_input, kw_funnel)
    /\ ~Contains(user_input, kw_funnel)
    /\ request_type = FUNCTIONAL
    /\ result.scad_code = TemplateCode("funnel")
    /\ calls["classify"] = 1

\* ------------------------------------------------------------------ C12
\* C12: a request classified FUNCTIONAL that contains "bracket" and not
\* "funnel" is answered with the bracket template with its default
\* parameters, without a generation call.
C12_BracketTemplate ==
    ( /\ Done
      /\ request_type = FUNCTIONAL
      /\ ContainsCI(user_input, kw_bracket)
      /\ ~ContainsCI(user_input, kw_funnel) ) =>
        /\ Returned
        /\ result.success
        /\ result.scad_code = TemplateCode("bracket")
        /\ calls["generate"] = 0

\* ------------------------------------------------------------------ C13
\* C13 as claimed: whenever the classification is ORGANIC the Mesh
\* Generator is invoked and the result is marked as a mesh; no template
\* and no DSL generation is used.
C13_OrganicAlwaysMesh ==
    (Done /\ request_type = ORGANIC) =>
        /\ Returned
        /\ calls["mesh"] = 1
        /\ "is_mesh" \in DOMAIN result /\ result.is_mesh
        /\ calls["fallbacks"] = 0
        /\ calls["generate"] = 0

\* C13 amended: in unified_app an ORGANIC classification invokes the Mesh
\* Generator once and the record returned, success or failure, is marked
\* is_mesh with request_type "organic"; in store_ai, which has no Mesh
\* Generator, it returns the failed "organic" record with empty DSL source.
\* In both revisions the request gets no template check and no generation
\* call, whatever keywords it contains.
C13_OrganicBypassesTemplates ==
    (Routed /\ request_type = ORGANIC) =>
        /\ calls["fallbacks"] = 0
        /\ calls["generate"] = 0
        /\ calls["compile"] = 0
        /\ rev = "unified_app" =>
              /\ calls["mesh"] = 1
              /\ Done =>
                    /\ Returned
                    /\ "is_mesh" \in DOMAIN result /\ result.is_mesh
                    /\ "request_type" \in DOMAIN result
                    /\ result.request_type = "organic"
                    /\ "scad_code" \notin DOMAIN result
        /\ rev = "store_ai" =>
              /\ calls["mesh"] = 0
              /\ result = StoreOrganicResult

\* C13 witness: a request naming a template keyword, classified ORGANIC,
\* came back from the Mesh Generator with a mesh.
C13_Witness ==
    /\ Returned
    /\ rev = "unified_app"
    /\ request_type = ORGANIC
    /\ Template(user_input) # NoTemplate
    /\ result.success
    /\ result.is_mesh
    /\ result.stl_data \in AssetBytes

(***************************************************************************)
(* The primitive extractor, on the source texts of Sources.                *)
(***************************************************************************)
\* the shapes the seven loops found in the source text
Recognized == Loops(RemoveComments(scad_source), 1, Walk(<< >>, FALSE)).objects

\* the source text holds sub
SourceHas(sub) == Contains(scad_source, sub)

\* C14: whatever the source text (empty, with non-numeric arguments, with
\* an unclosed bracket, with a comment that never ends), the extractor
\* returns, raising nothing, and what it returns holds at least one shape.
C14_ExtractorTotalNonEmpty ==
    parse_pc = "returned" => ~parse_raised /\ Len(objects) >= 1

\* C14 witness: the extractor returned on a text with a non-numeric cube
\* argument inside a block comment that is never closed.
C14_Witness ==
    /\ parse_pc = "returned"
    /\ SourceHas(<< "c","u","b","e","(","[","a","," >>)
    /\ SourceHas(<< "/","*" >>)
    /\ ~SourceHas(<< "*","/" >>)
    /\ ~parse_raised
    /\ Len(objects) = 1

\* C15 as stated: when no shape was recognized the extractor returns exactly
\* one shape, a cube of side 1 at the origin.
C15_UnitCubePlaceholder ==
    (parse_pc = "returned" /\ Recognized = << >>) =>
        objects = << [ type |-> "cube",
                       size |-> << Number(1), Number(1), Number(1) >>,
                       position |-> << Number(0), Number(0), Number(0) >> ] >>

\* C15 as amended: when no shape was recognized the extractor returns
\* exactly one shape, a cube of side 50 at the origin.
C15_DefaultCubePlaceholder ==
    (parse_pc = "returned" /\ Recognized = << >>) =>
        objects = << [ type |-> "cube",
                       size |-> << Number(50), Number(50), Number(50) >>,
                       position |-> << Number(0), Number(0), Number(0) >> ] >>

\* C15 witness: the extractor returned on a text that is not empty and in
\* which it recognized no shape: a sphere whose radius is no number.
C15_Witness ==
    /\ parse_pc = "returned"
    /\ SourceHas(<< "s","p","h","e","r","e","(","r","=","1",".","2",".","3" >>)
    /\ Recognized = << >>
    /\ Len(objects) = 1
    /\ objects[1].type = "cube"

\* the shape types that make up most of a template's body
DominantTypes(t) == IF t = "funnel" THEN { "cone", "cylinder" } ELSE { "cube" }

\* C16: for each template rendered with its default parameters, the
\* extractor run on the rendered source returns at least one shape of the
\* template's dominant type that it recognized in the source, not the
\* default cube.
C16_TemplatesRoundTrip ==
    \A t \in Templates :
        (parse_pc = "returned" /\ scad_source = TemplateSource(t)) =>
            /\ Recognized # << >>
            /\ \E i \in 1..Len(objects) : objects[i].type \in DominantTypes(t)

(***************************************************************************)
(* The mesh generator and its providers.                                   *)
(***************************************************************************)
\* the failures of a mesh job the claim names: the job ended FAILED, or a
\* request to the provider raised
MeshJobFaults ==
    { "job_failed", "submit_transport", "poll_transport", "fetch_transport" }

\* C17: when the mesh job fails or a request to the provider raises, and the
\* key of a second provider is configured, the whole submission is made
\* again, exactly once; with no second key the failure is returned and
\* nothing more is submitted.
C17_FailoverToSecondProvider ==
    (Returned /\ calls["mesh"] = 1 /\ faults \cap MeshJobFaults # { }) =>
        /\ triposr_key => calls["submit"] = 2
        /\ ~triposr_key => calls["submit"] = 1 /\ ~result.success

\* C18: with no provider key the mesh generator makes no submission, no
\* status request and no download, and what it returns is a failure with a
\* message and no bytes.
C18_NoKeyNoSubmission ==
    (rev = "unified_app" /\ ~meshy_key) =>
        /\ calls["submit"] = 0
        /\ calls["poll"] = 0
        /\ calls["fetch"] = 0
        /\ (Done /\ calls["mesh"] = 1) =>
              /\ Returned
              /\ ~result.success
              /\ result.message # ""
              /\ result.stl_data = NoBytes

\* C18 witness: an organic request came back from a mesh generator that has
\* no key, after the prompt was enhanced.
C18_Witness ==
    /\ Returned
    /\ rev = "unified_app"
    /\ ~meshy_key
    /\ calls["mesh"] = 1
    /\ calls["enhance"] = 1
    /\ calls["submit"] = 0
    /\ result = MarkMesh(NoKeyResult)

(***************************************************************************)
(* The records process_request returns.                                    *)
(***************************************************************************)
\* the fields of the record the last return of process_request builds: in
\* store_ai the five its docstring lists
ResultFields ==
    IF rev = "store_ai"
    THEN { "success", "request_type", "scad_code", "message", "fallback_used" }
    ELSE { "success", "scad_code", "message", "fallback_used", "is_mesh" }

\* C19: every record process_request returns has the same fields, whatever
\* the path: mesh success, mesh failure, template, generated source, failed
\* generation.
C19_UniformResult ==
    Returned => DOMAIN result = ResultFields

(***************************************************************************)
(* The history of the generator page.                                      *)
(***************************************************************************)
\* the run that ends this step served Generate with a text that was
\* processed and came back with a record
ServedRequest ==
    /\ click'.button = "generate"
    /\ click'.processed
    /\ ~click'.raised

\* C20: the history is an ordered sequence.  A run that serves Generate
\* with a non-empty text whose processing returns puts exactly one entry,
\* the request and its record, at the end and leaves the entries before it
\* as they were; a run with an empty text, or one whose processing raised,
\* leaves the history as it was; only a run that serves Clear takes entries
\* away, and it takes all of them.
C20_HistoryAppendOnly ==
    [][ /\ ServedRequest =>
              /\ click'.user_input # << >>
              /\ history' = history \o << [ request |-> click'.user_input,
                                            result |-> click'.result ] >>
        /\ (click'.button = "generate" /\ ~ServedRequest) => history' = history
        /\ (click'.button = "generate" /\ click'.user_input = << >>) =>
              ~click'.processed
        /\ click'.button = "clear" => history' = << >>
        /\ Len(history') < Len(history) => click'.button = "clear"
      ]_vars

\* C20 witness: two requests were served one after the other and stand in
\* the history in that order, the later one last.
C20_Witness ==
    /\ Len(history) = 2
    /\ click.button = "generate"
    /\ click.processed
    /\ ~click.raised
    /\ history[2] = [ request |-> click.user_input, result |-> click.result ]
    /\ history[1] # history[2]


(***************************************************************************)
(* The two bounded waits: the compiler's wall-clock timeout and the 40     *)
(* rounds of the polling loop.                                             *)
(***************************************************************************)
\* the timeout text of compile, as a message of a returned record would
\* carry it
CompileTimeoutText == "Compilation timeout - model may be too complex"

\* C21 as the specification states it: a compile that hits its timeout and
\* a polling loop that runs out each end the request, with a failure
\* message that names the timeout
C21_BothTimeoutsEndRequest ==
    /\ last_run.outcome = "timeout" =>
          /\ Returned
          /\ ~result.success
          /\ result.message = CompileTimeoutText
    /\ "poll_timeout" \in faults =>
          /\ Returned
          /\ ~result.success
          /\ result.message = "Timeout"

\* C21: a polling loop that runs out ends the request with the failure
\* message "Timeout"; a compile that hits its timeout only hands its
\* timeout text to generate as the error of a failed compile: the request
\* goes on to the next model call, and no returned record carries that text
C21_TimeoutMessages ==
    /\ "poll_timeout" \in faults =>
          /\ Returned
          /\ ~result.success
          /\ result.message = "Timeout"
          /\ result.stl_data = NoBytes
    /\ (pc = "self_correct" /\ last_run.outcome = "timeout") =>
          /\ error_msg = CompileMessage("timeout", scad_code)
          /\ result = NoResult
    /\ (pc = "generate" /\ last_run.outcome = "timeout") => result = NoResult
    /\ Returned => result.message # CompileTimeoutText

\* a compile of a generated candidate has timed out and the request goes on
C21_Witness ==
    /\ pc = "self_correct"
    /\ last_run.outcome = "timeout"
    /\ error_msg = CompileMessage("timeout", scad_code)


(***************************************************************************)
(* The attempt cap and the correction rounds (store_ai.py).                *)
(***************************************************************************)
\* this step is a compile that failed
CompileFailedStep == fails' = fails + 1

\* C22 as the specification states it: a compile that fails while the
\* attempt number is 5 or more is followed by no correction call; the
\* request goes to its failure
C22_NoCorrectionAtCap ==
    [][ (CompileFailedStep /\ attempt >= MAX_CORRECTION_ATTEMPTS) =>
            /\ pc' # "self_correct"
            /\ pc' = "generate" => AttemptsExhausted(attempt') ]_vars

\* a model call of the generator is due after a compile that failed
RetryDue ==
    /\ rev = "store_ai"
    /\ pc \in { "generate", "self_correct" }
    /\ last_run # NoRun
    /\ ~CompileSuccess(last_run.outcome)
    /\ ~AttemptsExhausted(attempt)

\* C23 as the specification states it: after a failed compile that is
\* followed by another try, the next model call gets a correction prompt
\* holding the request, the source that has just failed and the error text
\* of that failure; the attempt number has gone up by one per correction
\* round
C23_CorrectionPromptEachRound ==
    RetryDue =>
        /\ NextPrompt =
              CorrectionPrompt(user_input, last_run.src,
                  CompileMessage(last_run.outcome, last_run.src),
                  categorize_error(CompileMessage(last_run.outcome,
                                                  last_run.src)))
        /\ attempt = calls["correct"] + 1

\* this step is a call of compile that ended in outcome
CompiledAs(outcome) ==
    /\ calls'["compile"] = calls["compile"] + 1
    /\ last_run'.outcome = outcome

\* C24: a compile that ends in a non-zero exit, a timeout or a missing
\* compiler binary does not end the request: after the generated candidate
\* the correction call follows, after the corrected candidate generate is
\* entered again with the next attempt number; the attempt-cap failure is
\* returned only after 5 generation calls, 5 correction calls and 10
\* compiles
C24_CompileFailuresAllRetried ==
    [][ /\ \A outcome \in { "nonzero", "timeout", "not_found" } :
              CompiledAs(outcome) =>
                  /\ result' = NoResult
                  /\ ~raised'
                  /\ pc = "compile_gen" =>
                        pc' = "self_correct" /\ attempt' = attempt
                  /\ pc = "compile_corr" =>
                        pc' = "generate" /\ attempt' = attempt + 1
        /\ "attempt_cap" \in faults' =>
              /\ calls'["generate"] = MAX_CORRECTION_ATTEMPTS
              /\ calls'["correct"] = MAX_CORRECTION_ATTEMPTS
              /\ calls'["compile"] = 2 * MAX_CORRECTION_ATTEMPTS ]_vars

\* the request has failed at the attempt cap and the last of its 10 compiles
\* found no compiler binary
C24_Witness ==
    /\ Returned
    /\ "attempt_cap" \in faults
    /\ last_run.outcome = "not_found"
    /\ calls["compile"] = 2 * MAX_CORRECTION_ATTEMPTS
    /\ ~result.success


(***************************************************************************)
(* The error category is advisory.  Two runs of generate that get the same *)
(* compile outcomes (pass or fail) and the same model-call outcomes make   *)
(* the same calls with the same attempt numbers and end alike exactly when *)
(* every step of the loop is determined by the control state and these     *)
(* outcomes alone.  ControlAfter is that step, written without the error   *)
(* text, its category and the candidate source.                            *)
(***************************************************************************)
LoopLabels == { "generate", "compile_gen", "self_correct", "compile_corr" }

Control(label, a, call, flag) ==
    [ pc |-> label, attempt |-> a, call |-> call, success |-> flag ]

\* from label with attempt number a: the call made, then the label and the
\* attempt number reached and the success flag returned, when a compile
\* passed or not and a model call answered or not
ControlAfter(label, a, passed, answered) ==
    CASE label = "generate" ->
           IF a > MAX_CORRECTION_ATTEMPTS THEN Control("done", a, "none", FALSE)
           ELSE IF answered THEN Control("compile_gen", a, "generate", FALSE)
           ELSE Control("done", a, "generate", FALSE)
      [] label = "compile_gen" ->
           IF passed THEN Control("done", a, "compile", TRUE)
           ELSE Control("self_correct", a, "compile", FALSE)
      [] label = "self_correct" ->
           IF answered THEN Control("compile_corr", a, "correct", FALSE)
           ELSE Control("done", a, "correct", FALSE)
      [] label = "compile_corr" ->
           IF passed THEN Control("done", a, "compile", TRUE)
           ELSE Control("generate", a + 1, "compile", FALSE)

\* the call this step made
CallMade ==
    IF \E k \in CallKinds : calls'[k] # calls[k]
    THEN CHOOSE k \in CallKinds : calls'[k] # calls[k]
    ELSE "none"

\* no model call of the generator failed in this step
Answered == faults' \cap { "generate_call", "correct_call" } \subseteq faults

\* C25: in store_ai every step of the generate / compile / correct loop is
\* the one ControlAfter gives for the label, the attempt number, the pass or
\* fail of the compile and the outcome of the model call: the error text and
\* the category categorize_error computes from it change no call, no
\* attempt number and no success flag
C25_CategoryAdvisory ==
    [][ (rev = "store_ai" /\ pc \in LoopLabels) =>
            /\ ~raised'
            /\ calls' \in { calls } \cup { Count(calls, k) : k \in CallKinds }
            /\ Control(pc', attempt', CallMade,
                       pc' = "done" /\ result'.success)
                 = ControlAfter(pc, attempt, CompileSuccess(last_run'.outcome),
                                Answered) ]_vars

\* a correction call is due for an error of the category syntax, at a later
\* attempt than the first
C25_Witness ==
    /\ rev = "store_ai"
    /\ pc = "self_correct"
    /\ attempt > 1
    /\ categorize_error(error_msg) = SYNTAX
    /\ NextPrompt.category = SYNTAX
    /\ last_run.outcome = "nonzero"


(***************************************************************************)
(* Classification comes first, once per request.                           *)
(***************************************************************************)
\* the type the classification call of this request came to
Classified ==
    IF "classify_call" \in faults THEN ClassifyOnError ELSE ClassifyReply(reply)

\* C26, states: before the classification call has returned nothing else
\* was called; afterwards exactly one classification call was made, and
\* the request is routed by the type that call came to
C26_ClassifiedOnceFirst ==
    /\ pc \in { "idle", "classify" } => calls = NoCalls
    /\ pc \notin { "idle", "classify" } => calls["classify"] = 1
    /\ pc = "route" => request_type = Classified

\* C26, steps: the classification call is made from the entry of the
\* request only, the type changes in no later step of the request, and the
\* next request starts with no type and no reply of the last one
C26_ClassificationStaysWithRequest ==
    /\ calls'["classify"] > calls["classify"] =>
          /\ pc = "classify"
          /\ calls = NoCalls
          /\ calls' = Count(NoCalls, "classify")
    /\ pc \notin { "idle", "classify", "done" } => request_type' = request_type
    /\ pc = "done" => /\ request_type' = UNKNOWN
                      /\ reply' = NoReply
                      /\ calls' = NoCalls
                      /\ pc' = "idle"

\* C26: every execution of process_request makes exactly one classification
\* call, which returns before any template lookup, generation or correction
\* call, compile or mesh submission of that request, and the type of one
\* request is not carried over to the next
C26_OneClassificationFirst ==
    /\ [] C26_ClassifiedOnceFirst
    /\ [][C26_ClassificationStaysWithRequest]_vars

\* a request was classified ORGANIC, went to the mesh generator and ended
\* with one classification call and one submission
C26_Witness ==
    /\ Done
    /\ request_type = ORGANIC
    /\ calls["classify"] = 1
    /\ calls["submit"] = 1
    /\ calls["fallbacks"] = 0


(***************************************************************************)
(* Requests that run at the same time.                                     *)
(***************************************************************************)
\* C27 as the specification states it: when two calls of generate run
\* interleaved, every run of the compiler reads the candidate source its
\* own call wrote, never the source of the other call
C27_CompilerReadsOwnSource ==
    \A j \in Processes : jobs[j].run.read = jobs[j].run.src


(***************************************************************************)
(* The mesh job: one submission, and polls only for an accepted job.       *)
(***************************************************************************)
\* what can go wrong with the submission
SubmitFaults ==
    { "submit_transport", "submit_rejected", "submit_not_json", "no_task_id" }

\* C28, states: at most one job was submitted; a status request was made
\* only after one submission that was answered 200 or 202 with a task id;
\* a rejected submission and an answer without a task id have ended the
\* request with a failure and no status request
C28_SubmissionGatesPolling ==
    /\ calls["submit"] <= 1
    /\ (pc \in { "poll", "fetch" } \/ calls["poll"] > 0 \/ calls["fetch"] > 0) =>
          /\ calls["submit"] = 1
          /\ faults \cap SubmitFaults = { }
    /\ (faults \cap { "submit_rejected", "no_task_id" } # { }) =>
          /\ Returned
          /\ ~result.success
          /\ result.stl_data = NoBytes
          /\ result.message \in { "API error: 401", "API error: 500",
                                  "No task ID" }
          /\ calls["submit"] = 1
          /\ calls["poll"] = 0
          /\ polls = 0

\* C28, steps: the submission is made from the submit step only, and a
\* status request only by the polling loop
C28_SubmitThenPoll ==
    /\ calls'["submit"] # calls["submit"] =>
          pc = "submit" /\ calls["submit"] = 0 /\ calls["poll"] = 0
    /\ calls'["poll"] # calls["poll"] =>
          pc = "poll" /\ calls["submit"] = 1 /\ faults \cap SubmitFaults = { }

\* C28: a request submits at most one mesh job and polls its status only
\* after a submission answered with HTTP 200 or 202 and a task id; a
\* rejected submission or an answer without a task id ends the request
\* with failure and no status poll
C28_OneSubmissionPollsOnlyIfAccepted ==
    /\ [] C28_SubmissionGatesPolling
    /\ [][C28_SubmitThenPoll]_vars

\* a submission was rejected and the request has failed without a poll
C28_Witness ==
    /\ Returned
    /\ "submit_rejected" \in faults
    /\ calls["submit"] = 1
    /\ calls["poll"] = 0
    /\ ~result.success


(***************************************************************************)
(* A model call of the generator that raises.                              *)
(***************************************************************************)
CallFaults == { "generate_call", "correct_call" }

\* the messages generate returns for a model call that raised
CallErrorMessages ==
    { "Generation error: e", "Correction error: e", "Error: e" }

\* C29, states: once a generation or correction call has raised, the
\* request has returned success=false with an error message that is not
\* the attempt-cap message and with no source; the failed call was the
\* last call of the request
C29_CallFailureReturned ==
    (faults \cap CallFaults # { }) =>
        /\ Returned
        /\ ~result.success
        /\ result.scad_code = EmptyCode
        /\ result.message \in CallErrorMessages
        /\ result.message # FailedAfterMessage
        /\ "attempt_cap" \notin faults
        /\ "generate_call" \in faults =>
              /\ calls["correct"] = calls["generate"] - 1
              /\ calls["compile"] = 2 * (calls["generate"] - 1)
        /\ "correct_call" \in faults =>
              /\ calls["correct"] = calls["generate"]
              /\ calls["compile"] = 2 * calls["correct"] - 1

\* C29, steps: the step in which the call raises is the return, and the
\* only step after it is the start of the next request
C29_CallFailureStops ==
    /\ ((faults' \cap CallFaults) \ faults # { }) =>
          /\ pc \in { "generate", "self_correct" }
          /\ pc' = "done"
          /\ ~raised'
          /\ calls'["compile"] = calls["compile"]
    /\ (faults \cap CallFaults # { }) => pc' = "idle" /\ calls' = NoCalls

\* C29: a generation or correction call that raises ends generate at
\* once with success=false and an error message other than the attempt-cap
\* message; no further model call and no compile is made for the request
C29_ModelCallFailureEndsGenerate ==
    /\ [] C29_CallFailureReturned
    /\ [][C29_CallFailureStops]_vars

\* the correction call of the third attempt raised
C29_Witness ==
    /\ Returned
    /\ "correct_call" \in faults
    /\ attempt = 3
    /\ calls["correct"] = 3
    /\ calls["compile"] = 5
    /\ result.message = "Correction error: e"


(***************************************************************************)
(* Artifacts of a returned record: the DSL source, or the mesh bytes.      *)
(***************************************************************************)
\* the record is one of the mesh generator
IsMeshRecord(r) == "stl_data" \in DOMAIN r

\* C30: a returned record with success=false carries no artifact: its
\* source is empty, or for a record of the mesh generator its bytes are
\* None; a record carries mesh bytes only when the last status was
\* SUCCEEDED with a model URL and the file was downloaded
C30_FailedResultHasNoArtifact ==
    /\ (Returned /\ ~result.success) =>
          IF IsMeshRecord(result)
          THEN result.stl_data = NoBytes
          ELSE result.scad_code = EmptyCode
    /\ (Returned /\ IsMeshRecord(result) /\ result.stl_data # NoBytes) =>
          /\ result.success
          /\ result.stl_data \in AssetBytes
          /\ status_data.kind = "response"
          /\ Succeeded(status_data.status)
          /\ status_data.glb
          /\ calls["fetch"] = 1
    /\ (Returned /\ IsMeshRecord(result)) => rev = "unified_app"

\* the job succeeded without a model URL: the request failed, without bytes
C30_Witness ==
    /\ Returned
    /\ ~result.success
    /\ IsMeshRecord(result)
    /\ result.stl_data = NoBytes
    /\ Succeeded(status_data.status)
    /\ ~status_data.glb

=============================================================================
